---- MODULE Spec2Model ----
(***************************************************************************)
(* The pipeline backbone of the sentiment-event services: the file-backed  *)
(* queue (FileQueueClient), and the Orchestrator stage that drains the     *)
(* analysis topic, folds envelopes into its running state and fires rules. *)
(*                                                                         *)
(* Numbers: JavaScript numbers that carry scores and shares are modelled   *)
(* as binary floating-point values of a reduced significand width, held as *)
(* rationals <<numerator, denominator>>; Date.now() is modelled as an      *)
(* integer number of milliseconds counted from an offset that keeps        *)
(* it inside TLC's integers (every clock value has the same number of     *)
(* decimal digits, as every real Date.now() between 2001 and 2286 has).    *)
(***************************************************************************)
EXTENDS Integers, Sequences, FiniteSets, TLC

VARIABLES
  clock,        \* Date.now(), in ms
  dir,          \* the topic's queue directory: one file per message
  enqSeq,       \* history: ids in the order enqueue() was called
  enq,          \* the enqueue() in flight: its position and id
  dq,           \* the dequeueBatch() in flight or last returned
  ack,          \* the ack() in flight or last returned
  acked,        \* history: every id some ack() has unlinked (or tried to)
  ackRaised,    \* an ack() rejected
  rules,        \* OrchestratorRunner.rules, loaded by initialize()
  state,        \* OrchestratorRunner.state
  triggers,     \* OrchestratorRunner.triggers
  lastRuleTrigger, \* OrchestratorRunner.lastRuleTrigger
  lastNotified, \* history: per rule, the time of the last firing whose sendObservation resolved
  poll,         \* the pollOnce() calls in flight: position, batch, indexes
  ticks,        \* setInterval callbacks so far
  processed,    \* history: the envelopes whose rules were evaluated, and when
  fed,          \* history: the SentimentDocs folded into a fresh state
  config,       \* getRuntimeConfig(): allowAllLangs
  seen,         \* CollectorRunner.seen: the dedupe keys of this run
  lastRunISO,   \* CollectorRunner.lastRunISO: the since of the next fetch
  crun,         \* the runOnce() calls in flight: position, fetched items, index
  cleanTopic,   \* history: the CleanPosts enqueued on the clean topic, in order
  handled,      \* history: the RawPosts the loop of runOnce() has looked at
  archive,      \* the raw-archive log data/raw/<event>/<day>.jsonl, one RawPost per line
  feed,         \* the items of the RSS feed: RawPost, pubDate, and whether a fetch returned it (history)
  cstage,       \* CollectorRunner.start(): not called, in its first run, timer set, process exited
  anthropic,    \* ClaudeClient.anthropic is defined: an API key is configured
  inbox,        \* the clean topic: the CleanPosts not acked, oldest first
  analysis,     \* history: the envelopes the Analyzer enqueued on the analysis topic
  counted,      \* history: per trend point enqueued, the postIds of its documents
  apoll,        \* the Analyzer's pollOnce() calls in flight: position, batch, documents
  retry,        \* one ClaudeClient.analyzeBatch() call: options, position, attempts, delays
  mock          \* one analyzeBatch() call without a key: the posts, the documents returned

qvars == <<clock, dir, enqSeq, enq, dq, ack, acked, ackRaised>>

ovars == <<rules, state, triggers, lastRuleTrigger, lastNotified, poll, ticks, processed>>

cvars == <<config, seen, lastRunISO, crun, cleanTopic, handled, archive, feed, cstage>>

pvars == <<anthropic, inbox, analysis, counted, apoll>>

avars == <<pvars, retry, mock>>

\* The variables of the stages before the Orchestrator.
svars == <<cvars, avars>>

vars == <<qvars, ovars, fed, svars>>

----------------------------------------------------------------------------
(* Bounds of the model *)

\* Offset of the modelled clock (a 7-digit Date.now()).
ClockStart == 1000000
\* Milliseconds the queue model lets pass.
MaxTime == 1
\* How many distinct randomUUID() values the model draws from.
NumUuids == 2
\* enqueue() calls in one behaviour of the queue model.
MaxEnqueues == 3
\* Largest maxItems handed to dequeueBatch in the queue model.
MaxItems == 2
\* enqueue() calls in one behaviour of the ack model.
MaxAckEnqueues == 2

----------------------------------------------------------------------------
(* Helpers *)

Min(a, b) == IF a < b THEN a ELSE b

Range(s) == {s[i] : i \in 1..Len(s)}

----------------------------------------------------------------------------
(* FileQueueClient: names and ordering *)

Uuids == 1..NumUuids

\* The payload of a queue-model message (the queue is generic in T).
QPayloads == {"x", "y"}

\* An id is `${Date.now()}-${randomUUID()}`: <<ms, uuid>>.  The uuid is one
\* character here: the letter number u of the alphabet.
RECURSIVE Digits(_)
Digits(n) == IF n < 10 THEN <<48 + n>> ELSE Append(Digits(n \div 10), 48 + (n % 10))

\* The code units of the file name `${id}.json`.
FileName(id) == Digits(id[1]) \o <<45, 96 + id[2], 46, 106, 115, 111, 110>>

\* Array.prototype.sort() without a comparator: code-unit order of the strings.
LexLess(a, b) ==
  \E k \in 1..(Len(a) + 1) :
    /\ \A j \in 1..(k - 1) : j <= Len(b) /\ a[j] = b[j]
    /\ \/ k = Len(a) + 1 /\ Len(b) >= k
       \/ k <= Len(a) /\ k <= Len(b) /\ a[k] < b[k]

RECURSIVE SortNames(_)
SortNames(S) ==
  IF S = {} THEN <<>>
  ELSE LET m == CHOOSE x \in S : \A y \in S \ {x} : LexLess(FileName(x), FileName(y))
       IN <<m>> \o SortNames(S \ {m})

\* Array.prototype.slice(0, n), n >= 0.
Slice(s, n) == SubSeq(s, 1, Min(n, Len(s)))

DirIds(d) == {f.id : f \in d}

FileOf(d, id) == CHOOSE f \in d : f.id = id

\* entries.filter(.json).sort().slice(0, maxItems)
ListFiles(d, maxItems) == Slice(SortNames(DirIds(d)), maxItems)

\* writeFile(filePath, JSON.stringify(message)): the file exists from the open on,
\* with the whole text only once the write has finished.
CreateFile(d, id, payload, now) ==
  d \cup {[id |-> id, payload |-> payload, enqueuedAt |-> now, complete |-> FALSE]}

CompleteFile(d, id) ==
  {IF f.id = id THEN [f EXCEPT !.complete = TRUE] ELSE f : f \in d}

\* A faulty unlink: the path misses the file (no ".json"), the rejection is
\* swallowed, the file stays.
UnlinkOutcomeWrongPath(d, id) ==
  [dir |-> d, raised |-> FALSE]

\* A faulty unlink: no .catch, so ENOENT for a missing file rejects the ack.
UnlinkOutcomeNoCatch(d, id) ==
  [dir |-> {f \in d : f.id # id}, raised |-> (id \notin DirIds(d))]

\* unlink(filePath).catch(() => undefined): the directory after it, and whether the
\* rejection reaches the caller.
UnlinkOutcome(d, id) ==
  [dir |-> {f \in d : f.id # id}, raised |-> FALSE]

\* m1 was enqueued before m2.
EnqBefore(id1, id2) ==
  \E i, j \in 1..Len(enqSeq) : i < j /\ enqSeq[i] = id1 /\ enqSeq[j] = id2

----------------------------------------------------------------------------------------------------------------------------------------
(* Numbers.  A rational is <<n, d>>, d > 0, in lowest terms.  A JavaScript number
   is a binary floating-point value: every arithmetic operation returns the exact
   result rounded to the nearest value with a significand of MantBits bits, ties
   to even.  The exponent range is not modelled. *)

\* Bits of the significand (53 in an IEEE 754 double).
MantBits == 8

Abs(x) == IF x < 0 THEN -x ELSE x

RECURSIVE Gcd(_, _)
Gcd(a, b) == IF b = 0 THEN a ELSE Gcd(b, a % b)

RECURSIVE Pow2(_)
Pow2(k) == IF k = 0 THEN 1 ELSE 2 * Pow2(k - 1)

Rat(n, d) == LET g == Gcd(Abs(n), d) IN <<n \div g, d \div g>>

RInt(k) == <<k, 1>>

RNeg(a) == <<-a[1], a[2]>>

RAdd(a, b) ==
  LET m == (a[2] \div Gcd(a[2], b[2])) * b[2]
  IN Rat(a[1] * (m \div a[2]) + b[1] * (m \div b[2]), m)

RSub(a, b) == RAdd(a, RNeg(b))

RMulInt(a, k) == Rat(a[1] * (k \div Gcd(Abs(k), a[2])), a[2] \div Gcd(Abs(k), a[2]))

RDivInt(a, k) == Rat(a[1] \div Gcd(Abs(a[1]), k), a[2] * (k \div Gcd(Abs(a[1]), k)))

RLess(a, b) == RSub(a, b)[1] < 0

RAbs(a) == <<Abs(a[1]), a[2]>>

\* n / d scaled by a power of two into [2^(MantBits-1), 2^MantBits): <<n, d, e>>
\* with the value n / d * 2^e unchanged.
RECURSIVE Scale(_, _, _)
Scale(n, d, e) ==
  IF n < d * Pow2(MantBits - 1) THEN Scale(2 * n, d, e - 1)
  ELSE IF n >= d * Pow2(MantBits) THEN Scale(n, 2 * d, e + 1)
  ELSE <<n, d, e>>

\* Round to nearest, ties to even.
Fl(x) ==
  IF x[1] = 0 THEN RInt(0)
  ELSE LET sc == Scale(Abs(x[1]), x[2], 0)
           q == sc[1] \div sc[2]
           r == sc[1] % sc[2]
           up == 2 * r > sc[2] \/ (2 * r = sc[2] /\ q % 2 = 1)
           m == IF up THEN q + 1 ELSE q
           sign == IF x[1] < 0 THEN -1 ELSE 1
       IN IF sc[3] >= 0 THEN Rat(sign * m * Pow2(sc[3]), 1)
          ELSE Rat(sign * m, Pow2(-sc[3]))

\* a + b, a - b, a * k and a / k of JavaScript numbers.
FAdd(a, b) == Fl(RAdd(a, b))

FSub(a, b) == Fl(RSub(a, b))

FMulInt(a, k) == Fl(RMulInt(a, k))

FDivInt(a, k) == Fl(RDivInt(a, k))

----------------------------------------------------------------------------
(* Orchestrator: the state and its updates *)

\* 5 * 60 * 1000 ms: the cooldown of evaluateRules.
CooldownMs == 5 * 60 * 1000

\* options.pollIntervalMs ?? 15_000
PollIntervalMs == 15000

\* dequeueBatch(50) in pollOnce.
PollBatchSize == 50

\* slice(-100) of trendHistory.
TrendHistoryCap == 100

\* splice(0, length - 50) of triggers.
TriggerCap == 50

\* slice(0, 5) of the topic ranking.
TopTopicsCap == 5

\* lastRuleTrigger.get(rule.id) of a rule that never fired: undefined.
Absent == -1

InitialState ==
  [volume |-> 0, avgScore |-> RInt(0), posShare |-> RInt(0), negShare |-> RInt(0),
   topTopics |-> <<>>, trendHistory |-> <<>>, topicCounts |-> <<>>,
   lastUpdated |-> Absent]

\* The array index a property key is, if it is one ("7" is 7, "a" is none): the
\* topics of the model.
IndexOfKey(key) ==
  CASE key = "7" -> 7
    [] key = "10" -> 10
    [] OTHER -> Absent

\* A new own property on an object: Object.entries() lists the keys that are
\* array indexes first, in ascending numeric order, then the other keys in the
\* order they were created.  The object is a sequence of [topic, count].
RECURSIVE InsertKey(_, _)
InsertKey(tc, e) ==
  IF IndexOfKey(e.topic) = Absent THEN Append(tc, e)
  ELSE IF tc = <<>> THEN <<e>>
  ELSE IF IndexOfKey(Head(tc).topic) # Absent /\ IndexOfKey(Head(tc).topic) < IndexOfKey(e.topic)
    THEN <<Head(tc)>> \o InsertKey(Tail(tc), e)
    ELSE <<e>> \o tc

\* topicCounts[topic] = (topicCounts[topic] ?? 0) + 1 on the object topicCounts.
IncrementTopic(tc, topic) ==
  IF \E i \in 1..Len(tc) : tc[i].topic = topic
    THEN [i \in 1..Len(tc) |->
            IF tc[i].topic = topic THEN [tc[i] EXCEPT !.count = @ + 1] ELSE tc[i]]
    ELSE InsertKey(tc, [topic |-> topic, count |-> 1])

RECURSIVE IncrementTopics(_, _)
IncrementTopics(tc, topics) ==
  IF topics = <<>> THEN tc
  ELSE IncrementTopics(IncrementTopic(tc, Head(topics)), Tail(topics))

\* counter.set(topic, (counter.get(topic) ?? 0) + 1) on a Map, whose entries keep
\* the order in which the keys were first set.
MapIncrement(counter, topic) ==
  IF \E i \in 1..Len(counter) : counter[i].topic = topic
    THEN [i \in 1..Len(counter) |->
            IF counter[i].topic = topic THEN [counter[i] EXCEPT !.count = @ + 1] ELSE counter[i]]
    ELSE Append(counter, [topic |-> topic, count |-> 1])

RECURSIVE MapIncrements(_, _)
MapIncrements(counter, topics) ==
  IF topics = <<>> THEN counter
  ELSE MapIncrements(MapIncrement(counter, Head(topics)), Tail(topics))

\* Array.prototype.sort((a, b) => b[1] - a[1]): by count descending, stable.
RECURSIVE InsertByCount(_, _)
InsertByCount(sorted, e) ==
  IF sorted = <<>> THEN <<e>>
  ELSE IF Head(sorted).count >= e.count
    THEN <<Head(sorted)>> \o InsertByCount(Tail(sorted), e)
    ELSE <<e>> \o sorted

RECURSIVE SortByCount(_)
SortByCount(s) ==
  IF s = <<>> THEN <<>>
  ELSE InsertByCount(SortByCount(SubSeq(s, 1, Len(s) - 1)), s[Len(s)])

\* Object.entries(counts).sort(...).slice(0, 5).map(([topic]) => topic)
RankTopics(tc) ==
  LET top == Slice(SortByCount(tc), TopTopicsCap)
  IN [i \in 1..Len(top) |-> top[i].topic]

\* A faulty updateStateFromDoc(doc): the divisions by the volume are left out.
UpdateStateFromDocNoDivide(st, doc) ==
  [st EXCEPT
     !.volume = st.volume + 1,
     !.avgScore = FAdd(st.avgScore, FSub(doc.score, st.avgScore)),
     !.posShare = FAdd(st.posShare, RInt(IF doc.sentiment = "pos" THEN 1 ELSE 0)),
     !.negShare = FAdd(st.negShare, RInt(IF doc.sentiment = "neg" THEN 1 ELSE 0))]

\* updateStateFromDoc(doc)
UpdateStateFromDoc(st, doc) ==
  LET total == st.volume + 1
      avg == FAdd(st.avgScore, FDivInt(FSub(doc.score, st.avgScore), total))
      posIncrement == IF doc.sentiment = "pos" THEN 1 ELSE 0
      negIncrement == IF doc.sentiment = "neg" THEN 1 ELSE 0
      counts == IncrementTopics(st.topicCounts, doc.topics)
  IN [st EXCEPT
        !.volume = total,
        !.avgScore = avg,
        !.posShare = FDivInt(FAdd(FMulInt(st.posShare, total - 1), RInt(posIncrement)), total),
        !.negShare = FDivInt(FAdd(FMulInt(st.negShare, total - 1), RInt(negIncrement)), total),
        !.topicCounts = counts,
        !.topTopics = RankTopics(counts)]

\* Object.fromEntries(entries): a later entry of a key already there replaces its
\* value and keeps its place.
RECURSIVE FromEntries(_, _)
FromEntries(tc, entries) ==
  IF entries = <<>> THEN tc
  ELSE LET e == Head(entries)
           next == IF \E i \in 1..Len(tc) : tc[i].topic = e.topic
                     THEN [i \in 1..Len(tc) |-> IF tc[i].topic = e.topic THEN e ELSE tc[i]]
                     ELSE InsertKey(tc, e)
       IN FromEntries(next, Tail(entries))

\* [...trendHistory, trend].slice(-100)
LastN(s, n) == IF Len(s) <= n THEN s ELSE SubSeq(s, Len(s) - n + 1, Len(s))

\* An update that folds the trend point into the state instead of replacing it.
UpdateStateFromTrendFolds(st, trend) ==
  [st EXCEPT
     !.trendHistory = LastN(Append(st.trendHistory, trend), TrendHistoryCap),
     !.volume = st.volume + trend.volume,
     !.avgScore = trend.avgScore,
     !.posShare = trend.posShare,
     !.negShare = trend.negShare,
     !.topTopics = trend.topTopics]

\* updateStateFromTrend(trend)
UpdateStateFromTrend(st, trend) ==
  [st EXCEPT
     !.trendHistory = LastN(Append(st.trendHistory, trend), TrendHistoryCap),
     !.volume = trend.volume,
     !.avgScore = trend.avgScore,
     !.posShare = trend.posShare,
     !.negShare = trend.negShare,
     !.topTopics = trend.topTopics,
     !.topicCounts = FromEntries(<<>>,
        [i \in 1..Len(trend.topTopics) |->
           [topic |-> trend.topTopics[i], count |-> trend.volume - (i - 1)]])]

\* The condition of an avgScoreThreshold rule in evaluateRules.
RuleCondition(rule, st) ==
  RLess(st.avgScore, rule.threshold) /\ st.volume >= rule.minVolume

\* lastRuleTrigger.get(rule.id) ?? 0
LastTrigger(lrt, id) == IF lrt[id] = Absent THEN 0 ELSE lrt[id]

\* now - last < 5 * 60 * 1000: the rule is skipped.
InCooldown(lrt, id, now) == now - LastTrigger(lrt, id) < CooldownMs

\* An evaluation without the cooldown test.
FirstFiringIgnoresCooldown(rs, st, lrt, now, k) ==
  LET firing == {j \in k..Len(rs) :
                   /\ rs[j].type = "avgScoreThreshold"
                   /\ RuleCondition(rs[j], st)}
  IN IF firing = {} THEN 0 ELSE CHOOSE j \in firing : \A j2 \in firing : j <= j2

\* The rules of the rules document, in its order, that fire in one pass of
\* evaluateRules: the first index from k on whose rule fires, 0 when none does.
FirstFiring(rs, st, lrt, now, k) ==
  LET firing == {j \in k..Len(rs) :
                   /\ rs[j].type = "avgScoreThreshold"
                   /\ RuleCondition(rs[j], st)
                   /\ ~InCooldown(lrt, rs[j].id, now)}
  IN IF firing = {} THEN 0 ELSE CHOOSE j \in firing : \A j2 \in firing : j <= j2

\* A push with no splice: the history grows without bound.
PushTriggerNoSplice(ts, record) == Append(ts, record)

\* triggers.push(record); triggers.splice(0, Math.max(0, triggers.length - 50))
PushTrigger(ts, record) == LastN(Append(ts, record), TriggerCap)

----------------------------------------------------------------------------
(* Analyzer: the trend point of a batch *)

\* documents.reduce((acc, doc) => acc + doc.score, 0)
RECURSIVE SumScores(_)
SumScores(docs) ==
  IF docs = <<>> THEN RInt(0)
  ELSE FAdd(SumScores(SubSeq(docs, 1, Len(docs) - 1)), docs[Len(docs)].score)

CountLabel(docs, label) == Cardinality({i \in 1..Len(docs) : docs[i].sentiment = label})

RECURSIVE CountTopics(_, _)
CountTopics(tc, docs) ==
  IF docs = <<>> THEN tc
  ELSE CountTopics(MapIncrements(tc, Head(docs).topics), Tail(docs))

\* trendPointFromDocs(documents), documents not empty.
TrendPointFromDocs(docs, now) ==
  [ts |-> now,
   volume |-> Len(docs),
   avgScore |-> FDivInt(SumScores(docs), Len(docs)),
   posShare |-> FDivInt(RInt(CountLabel(docs, "pos")), Len(docs)),
   negShare |-> FDivInt(RInt(CountLabel(docs, "neg")), Len(docs)),
   topTopics |-> RankTopics(CountTopics(<<>>, docs))]

----------------------------------------------------------------------------
(* The inputs of the Orchestrator model *)

\* pollOnce() calls that may be in flight at once.
MaxPollers == 2
\* setInterval callbacks in one behaviour.
MaxTicks == 2
\* Envelopes the Analyzer enqueues in one behaviour.
MaxProduced == 2
\* SentimentDocs folded into a fresh state.
MaxFed == 4

Pollers == 1..MaxPollers

Rule1 == [id |-> "r1", type |-> "avgScoreThreshold", threshold |-> RInt(0),
          minVolume |-> 0, agentName |-> "agent1", message |-> "negative"]

Rule2 == [id |-> "r2", type |-> "avgScoreThreshold", threshold |-> Rat(-1, 2),
          minVolume |-> 2, agentName |-> "agent2", message |-> "very negative"]

RuleIds == {"r1", "r2"}

\* The rules document the model loads.
RulesDoc == <<Rule1, Rule2>>

DocNeg == [postId |-> "p1", sentiment |-> "neg", score |-> Fl(Rat(-3, 5)), topics |-> <<"a">>]

DocPos == [postId |-> "p2", sentiment |-> "pos", score |-> Fl(Rat(3, 5)), topics |-> <<"b">>]

DocNeu == [postId |-> "p3", sentiment |-> "neu", score |-> RInt(0), topics |-> <<"7">>]

DocPos1 == [postId |-> "p4", sentiment |-> "pos", score |-> RInt(1), topics |-> <<"a", "b">>]

DocNeg1 == [postId |-> "p5", sentiment |-> "neg", score |-> Fl(Rat(-1, 10)), topics |-> <<"c", "a">>]

\* The documents folded by the fold model.
FoldDocs == {DocNeg, DocPos, DocNeu, DocPos1, DocNeg1}

\* The envelopes on the analysis topic: documents, and the trend points of batches.
DocEnvelopes == {[kind |-> "sentiment-doc", data |-> d] : d \in {DocNeg, DocPos}}

TrendEnvelopes ==
  {[kind |-> "trend-point", data |-> TrendPointFromDocs(b, ClockStart)] :
     b \in {<<DocNeg>>, <<DocNeg, DocNeg1, DocPos>>}}

Envelopes == DocEnvelopes \cup TrendEnvelopes

IdlePoll == [pc |-> "idle", batch |-> <<>>, i |-> 0, r |-> 0, now |-> 0, action |-> "none"]

----------------------------------------------------------------------------
(* Collector: items, the dedupe key and the language filter *)

\* runOnce() calls that may be in flight at once.
MaxRuns == 2
\* setInterval callbacks of the Collector in one behaviour (start() runs one more).
MaxCollectorTicks == 2
\* Items one source.fetch() returns.
MaxFetched == 2

Runners == 1..MaxRuns

\* Strings are sequences of characters.
Colon == <<":">>

\* The texts of the model carry no markup, address, number, handle or run of
\* blanks: normalizeText() returns them as they are.
NormalizeText(text) == text

\* detectLanguage(text): franc() on the normalized text.
DetectLanguage(text) ==
  CASE text = "good game tonight" -> [lang |-> "en", reliable |-> TRUE]
    [] text = "what a great match" -> [lang |-> "en", reliable |-> TRUE]
    [] text = "quel beau match ce soir" -> [lang |-> "fra", reliable |-> TRUE]
    [] OTHER -> [lang |-> "und", reliable |-> FALSE]

\* z.string().url(): the string has a scheme.
ValidUrl(u) == \E i \in 2..Len(u) : u[i] = ":" /\ \A j \in 1..(i - 1) : u[j] # ":"

RawA1 == [source |-> <<"r", "s", "s">>, id |-> <<"a">>, url |-> <<"b", ":", "c", ":", "d">>,
          text |-> "good game tonight"]

\* The item of RawA1 again, its text edited.
RawA2 == [source |-> <<"r", "s", "s">>, id |-> <<"a">>, url |-> <<"b", ":", "c", ":", "d">>,
          text |-> "what a great match"]

RawB == [source |-> <<"r", "s", "s">>, id |-> <<"a", ":", "b">>, url |-> <<"c", ":", "d">>,
         text |-> "good game tonight"]

RawF == [source |-> <<"r", "s", "s">>, id |-> <<"f">>, url |-> <<"g", ":", "h">>,
         text |-> "quel beau match ce soir"]

RawBad == [source |-> <<"r", "s", "s">>, id |-> <<"e">>, url |-> <<"e">>,
           text |-> "good game tonight"]

RawPosts == {RawA1, RawA2, RawB, RawF, RawBad}

\* What source.fetch() may return.
Fetches == UNION {[1..n -> RawPosts] : n \in 1..MaxFetched}

Triple(post) == <<post.source, post.id, post.url>>

\* hashText(`${raw.source}:${raw.id}:${raw.url}`): SHA-256 of the joined string,
\* one digest per string.
DedupeKey(raw) == raw.source \o Colon \o raw.id \o Colon \o raw.url

\* The language filter of cleanPost(raw, allowAllLangs): the item is kept.
PassesFilter(raw, allowAllLangs) ==
  LET language == DetectLanguage(NormalizeText(raw.text))
  IN allowAllLangs \/ (language.reliable /\ language.lang = "en")

\* CleanPostSchema.parse accepts the item.
ParsesClean(raw) ==
  /\ Len(raw.id) >= 1
  /\ ValidUrl(raw.url)
  /\ NormalizeText(raw.text) # ""

\* cleanPost(raw, allowAllLangs) of an item that is kept and parses.
CleanPost(raw) ==
  [source |-> raw.source, id |-> raw.id, url |-> raw.url, text |-> raw.text,
   textClean |-> NormalizeText(raw.text),
   lang |-> DetectLanguage(NormalizeText(raw.text)).lang]

IdleRun == [pc |-> "idle", since |-> Absent, items |-> <<>>, i |-> 0]

\* A Collector constructed and not started.
NoCollector ==
  /\ config = [allowAllLangs |-> FALSE]
  /\ seen = {}
  /\ lastRunISO = Absent
  /\ crun = [r \in Runners |-> IdleRun]
  /\ cleanTopic = <<>>
  /\ handled = <<>>
  /\ archive = <<>>
  /\ feed = <<>>
  /\ cstage = "new"

----------------------------------------------------------------------------
(* ClaudeClient.analyzeBatch with an API key: the retry loop *)

\* Largest ClaudeClientOptions.maxRetries of the model (3 when left out).
MaxRetriesCap == 3
\* Math.random() * 250 is below this.
JitterMs == 250
DefaultMaxRetries == 3
DefaultInitialBackoffMs == 1000
DefaultBackoffMultiplier == 2

\* The options a ClaudeClient is constructed with.
ClientOptions ==
  [maxRetries : 0..MaxRetriesCap,
   initialBackoffMs : {DefaultInitialBackoffMs, 500},
   backoffMultiplier : {DefaultBackoffMultiplier, 3}]

DefaultOptions ==
  [maxRetries |-> DefaultMaxRetries, initialBackoffMs |-> DefaultInitialBackoffMs,
   backoffMultiplier |-> DefaultBackoffMultiplier]

\* error?.status ?? error?.response?.status of a rejected messages.create(), and
\* of the SyntaxError of JSON.parse, which has none.
Statuses == {429, 500, 503, 400, 401, Absent}

\* status === 429 || (status >= 500 && status < 600)
Retryable(status) == status = 429 \/ (status >= 500 /\ status < 600)

\* Math.pow(base, exponent), exponent a natural number.
RECURSIVE Pow(_, _)
Pow(base, exponent) == IF exponent = 0 THEN 1 ELSE base * Pow(base, exponent - 1)

\* A faulty backoff: the same delay before every retry.
BackoffFlat(options, attempt) == options.initialBackoffMs

\* initialBackoffMs * Math.pow(backoffMultiplier, attempt - 1)
Backoff(options, attempt) == options.initialBackoffMs * Pow(options.backoffMultiplier, attempt - 1)

\* Math.random() * 250, in whole milliseconds: the values of the model.
Jitters == {0, 125, JitterMs - 1}

\* attempt += 1 in the catch.
NextAttempt(attempt) == attempt + 1

\* while (attempt <= this.maxRetries)
LoopContinues(options, attempt) == attempt <= options.maxRetries

\* A faulty catch: it rethrows only when the attempts are used up.
RethrowsWhenExhausted(options, status, attempt) == attempt > options.maxRetries

\* A faulty catch: it rethrows only what is not retryable.
RethrowsNotRetryable(options, status, attempt) == ~Retryable(status)

\* !retryable || attempt > this.maxRetries: the catch rethrows.
Rethrows(options, status, attempt) == ~Retryable(status) \/ attempt > options.maxRetries

\* What analyzeBatch() has thrown: nothing, the error of the last call, or the
\* Error after the loop.
NoError == [raised |-> "none", status |-> Absent]
CallError(status) == [raised |-> "error", status |-> status]
LoopError == [raised |-> "exhausted", status |-> Absent]

\* What a messages.create() came to.
Answered == [ok |-> TRUE, status |-> 200]
Failed(status) == [ok |-> FALSE, status |-> status]

\* analyzeBatch() not called: the client as constructed.
NewCall(options) ==
  [pc |-> "idle", options |-> options, attempt |-> 0,
   outcomes |-> <<>>, delays |-> <<>>, slept |-> <<>>, error |-> NoError,
   parsed |-> <<>>, documents |-> <<>>]

NoAdapterCall == retry = NewCall(DefaultOptions)

\* No call of analyzeBatch() on a client without a key.
NoMockCall == mock = [pc |-> "idle", posts |-> <<>>, documents |-> <<>>]

----------------------------------------------------------------------------
(* Analyzer: posts, the analysis adapter and the trend point of a batch *)

\* pollOnce() calls of the Analyzer that may be in flight at once.
MaxAnalyzerPolls == 2
\* setInterval callbacks of the Analyzer in one behaviour.
MaxAnalyzerTicks == 3
\* AnalyzerOptions.batchSize of the model (25 when the option is left out).
BatchSize == 2

AnalyzerPolls == 1..MaxAnalyzerPolls

\* String.prototype.toLowerCase(), on the letters of the model.
LowerChar(c) ==
  CASE c = "L" -> "l"
    [] c = "H" -> "h"
    [] c = "A" -> "a"
    [] OTHER -> c

ToLowerCase(s) == [i \in 1..Len(s) |-> LowerChar(s[i])]

\* String.prototype.includes(word)
Includes(s, word) ==
  \E k \in 0..(Len(s) - Len(word)) : \A i \in 1..Len(word) : s[k + i] = word[i]

WordLove == <<"l", "o", "v", "e">>
WordAmazing == <<"a", "m", "a", "z", "i", "n", "g">>
WordHate == <<"h", "a", "t", "e">>
WordAngry == <<"a", "n", "g", "r", "y">>

\* post.meta?.topics ?? []: meta is absent, or a record that may hold topics.
NoMeta == [has |-> FALSE, topics |-> <<>>]

MetaTopics(post) == IF post.meta.has THEN post.meta.topics ELSE <<>>

\* textClean.slice(0, 120); the texts of the model are shorter.
Summary(post) == post.textClean

\* MockClaudeAdapter.analyzeBatch: the document of one post.
MockDoc(post) ==
  LET lower == ToLowerCase(post.textClean)
      positive == Includes(lower, WordLove) \/ Includes(lower, WordAmazing)
      negative == Includes(lower, WordHate) \/ Includes(lower, WordAngry)
  IN [postId |-> post.id,
      sentiment |-> IF positive THEN "pos" ELSE IF negative THEN "neg" ELSE "neu",
      score |-> IF positive THEN Fl(Rat(3, 5)) ELSE IF negative THEN Fl(Rat(-3, 5)) ELSE RInt(0),
      topics |-> MetaTopics(post),
      summary |-> Summary(post)]

\* MockClaudeAdapter.analyzeBatch: posts.map(...)
MockDocuments(posts) == [i \in 1..Len(posts) |-> MockDoc(posts[i])]

\* SentimentDocSchema.parse accepts the document.
ValidSentimentDoc(doc) ==
  /\ doc.postId # ""
  /\ doc.sentiment \in {"neg", "neu", "pos"}
  /\ ~RLess(doc.score, RInt(-1))
  /\ ~RLess(RInt(1), doc.score)
  /\ Len(doc.topics) <= TopTopicsCap
  /\ \A i \in 1..Len(doc.topics) : doc.topics[i] # ""
  /\ Len(doc.summary) >= 1

\* Items of one answer of the service.
MaxCandidates == 3

\* An item of the JSON array the service answers with.  sentiment is a string or
\* an object { label, score }; a property that is missing is "" (strings),
\* <<>> (arrays) or has |-> FALSE (numbers).
RawItem(id, sentiment, score, topics, summary) ==
  [isNull |-> FALSE, id |-> id, sentiment |-> sentiment, score |-> score,
   topics |-> topics, summary |-> summary]

Label(label) == [isObject |-> FALSE, label |-> label, score |-> [has |-> FALSE, value |-> RInt(0)]]

Labelled(label, value) ==
  [isObject |-> TRUE, label |-> label, score |-> [has |-> TRUE, value |-> value]]

Number(value) == [has |-> TRUE, value |-> value]

NoNumber == [has |-> FALSE, value |-> RInt(0)]

ItemOk == RawItem("p1", Label("pos"), Number(Rat(3, 5)), <<"a">>, <<"o", "k">>)
ItemNested == RawItem("p2", Labelled("neg", Rat(-3, 5)), NoNumber, <<>>, <<"n", "o">>)
ItemBadLabel == RawItem("p3", Label("positive"), Number(Rat(3, 5)), <<>>, <<"o", "k">>)
ItemScoreOut == RawItem("p4", Label("neg"), Number(RInt(-2)), <<>>, <<"n", "o">>)
ItemNoSummary == RawItem("p5", Label("neu"), Number(RInt(0)), <<>>, <<>>)
ItemPostId == RawItem("", Label("pos"), Number(Rat(3, 5)), <<>>, <<"o", "k">>)
ItemSixTopics == RawItem("p6", Label("neu"), Number(RInt(0)), <<"a", "b", "c", "d", "e", "f">>, <<"o", "k">>)
ItemNull == [RawItem("", Label(""), NoNumber, <<>>, <<>>) EXCEPT !.isNull = TRUE]

Items == {ItemOk, ItemNested, ItemBadLabel, ItemScoreOut, ItemNoSummary, ItemPostId,
          ItemSixTopics, ItemNull}

RECURSIVE SeqsUpTo(_, _)
SeqsUpTo(set, n) ==
  IF n = 0 THEN {<<>>}
  ELSE LET shorter == SeqsUpTo(set, n - 1)
       IN shorter \cup {Append(q, x) : q \in {r \in shorter : Len(r) = n - 1}, x \in set}

\* The JSON arrays the service answers with.
Responses == SeqsUpTo(Items, MaxCandidates)

\* raw.sentiment?.label ?? raw.sentiment
SentimentOfRaw(raw) ==
  IF raw.sentiment.isObject /\ raw.sentiment.label = "" THEN "[object Object]"
  ELSE raw.sentiment.label

\* raw.sentiment?.score ?? raw.score
ScoreOfRaw(raw) ==
  IF raw.sentiment.isObject /\ raw.sentiment.score.has THEN raw.sentiment.score
  ELSE raw.score

\* The object sentimentFromRaw() hands to SentimentDocSchema.parse, with the
\* default of topics.
DocOfRaw(raw) ==
  [postId |-> raw.id, sentiment |-> SentimentOfRaw(raw), score |-> ScoreOfRaw(raw).value,
   topics |-> raw.topics, summary |-> raw.summary]

NoDocument == [defined |-> FALSE, thrown |-> FALSE, doc |-> DocOfRaw(ItemNull)]

\* A sentimentFromRaw() without its try: what the schema rejects is thrown.
SentimentFromRawNoCatch(raw) ==
  IF raw.isNull \/ ~ScoreOfRaw(raw).has \/ ~ValidSentimentDoc(DocOfRaw(raw))
    THEN [NoDocument EXCEPT !.thrown = TRUE]
    ELSE [defined |-> TRUE, thrown |-> FALSE, doc |-> DocOfRaw(raw)]

\* sentimentFromRaw(raw): the document, or undefined after the warning when
\* raw.id throws (raw is null) or the schema rejects the object.
SentimentFromRaw(raw) ==
  IF raw.isNull \/ ~ScoreOfRaw(raw).has \/ ~ValidSentimentDoc(DocOfRaw(raw))
    THEN NoDocument
    ELSE [defined |-> TRUE, thrown |-> FALSE, doc |-> DocOfRaw(raw)]

\* parsed.map((item) => sentimentFromRaw(item)).filter((doc) => Boolean(doc))
RECURSIVE DocumentsOf(_)
DocumentsOf(parsed) ==
  IF parsed = <<>> THEN <<>>
  ELSE (IF SentimentFromRaw(Head(parsed)).defined
          THEN <<SentimentFromRaw(Head(parsed)).doc>> ELSE <<>>)
       \o DocumentsOf(Tail(parsed))

\* An exception leaves the map: the try of analyzeBatch() is left for its catch.
MapThrows(parsed) == \E i \in 1..Len(parsed) : SentimentFromRaw(parsed[i]).thrown

PostLove == [id |-> "p1", textClean |-> <<"I", " ", "L", "o", "v", "e", " ", "i", "t">>,
             meta |-> NoMeta]

PostHate == [id |-> "p2", textClean |-> <<"H", "a", "t", "e", " ", "i", "t">>,
             meta |-> [has |-> TRUE, topics |-> <<"a">>]]

\* The CleanPosts the Collector puts on the clean topic in the Analyzer model.
AnalyzerPosts == {PostLove, PostHate}

\* The subsequence of s at the indexes of keep.
RECURSIVE Keep(_, _, _)
Keep(s, keep, i) ==
  IF i > Len(s) THEN <<>>
  ELSE (IF i \in keep THEN <<s[i]>> ELSE <<>>) \o Keep(s, keep, i + 1)

\* ClaudeClient.analyzeBatch with a key: the documents of one answer. Each item
\* of the answer goes through sentimentFromRaw(), which drops the items the
\* schema rejects; the service answers about the posts in their order.
ServiceDocuments(posts) ==
  {Keep(MockDocuments(posts), keep, 1) : keep \in SUBSET (1..Len(posts))}

\* sent: the envelopes this poll has enqueued (history).
IdleAnalyzerPoll ==
  [pc |-> "idle", batch |-> <<>>, docs |-> <<>>, i |-> 0, sent |-> <<>>, outcome |-> "none"]

\* A catch of pollOnce() that would go on to the ack of the batch.
AnalyzerCaughtAcks(pl) == [pl EXCEPT !.pc = "ack"]

\* The catch of pollOnce(): logger.error("analyzer.batch_failed"), and the poll
\* is over; the ack, which is the last statement of the try, is not reached.
AnalyzerCaught(pl) == [IdleAnalyzerPoll EXCEPT !.outcome = "logged"]

\* pollOnce() after inputQueue.ack(): the try is left normally.
AnalyzerAcked == [IdleAnalyzerPoll EXCEPT !.outcome = "acked"]

\* An Analyzer constructed and not started, its topics empty.
NoAnalyzer ==
  /\ anthropic = FALSE
  /\ inbox = <<>>
  /\ analysis = <<>>
  /\ counted = <<>>
  /\ apoll = [p \in AnalyzerPolls |-> IdleAnalyzerPoll]
  /\ NoAdapterCall
  /\ NoMockCall

----------------------------------------------------------------------------
(* FileQueueClient: the operations, step by step *)

NoDequeue == [pc |-> "idle", n |-> 0, files |-> <<>>, items |-> <<>>, err |-> "none"]

NoAck == [pc |-> "idle", ids |-> {}, pending |-> {}, reack |-> FALSE]

\* An id no enqueue ever generated.
BogusId == <<ClockStart, 0>>

QInit ==
  /\ clock = ClockStart
  /\ dir = {}
  /\ enqSeq = <<>>
  /\ enq = [pc |-> "idle", id |-> BogusId]
  /\ dq = NoDequeue
  /\ ack = NoAck
  /\ acked = {}
  /\ ackRaised = FALSE

\* The queue models run no Orchestrator.
NoOrchestrator ==
  /\ rules = <<>>
  /\ state = InitialState
  /\ triggers = <<>>
  /\ lastRuleTrigger = [id \in RuleIds |-> Absent]
  /\ lastNotified = [id \in RuleIds |-> Absent]
  /\ poll = [p \in Pollers |-> IdlePoll]
  /\ ticks = 0
  /\ processed = <<>>
  /\ fed = <<>>

\* The state after construction: an empty topic, and an Orchestrator not started.
Init == QInit /\ NoOrchestrator /\ NoCollector /\ NoAnalyzer

\* Every id ever generated or named in an ack: randomUUID() repeats none of them.
UsedIds == Range(enqSeq) \cup acked

\* A millisecond passes.
QTick ==
  /\ clock < ClockStart + MaxTime
  /\ clock' = clock + 1
  /\ UNCHANGED <<ovars, fed, svars, dir, enqSeq, enq, dq, ack, acked, ackRaised>>

\* enqueue(payload) up to the open of writeFile: the id is drawn, the file appears.
EnqueueBegin(payload, u) ==
  LET id == <<clock, u>> IN
  /\ enq.pc = "idle"
  /\ id \notin UsedIds
  /\ dir' = CreateFile(dir, id, payload, clock)
  /\ enqSeq' = Append(enqSeq, id)
  /\ enq' = [pc |-> "writing", id |-> id]
  /\ UNCHANGED <<ovars, fed, svars, clock, dq, ack, acked, ackRaised>>

\* writeFile finishes: the whole message is in the file; enqueue returns it.
EnqueueFinish ==
  /\ enq.pc = "writing"
  /\ dir' = CompleteFile(dir, enq.id)
  /\ enq' = [enq EXCEPT !.pc = "idle"]
  /\ UNCHANGED <<ovars, fed, svars, clock, enqSeq, dq, ack, acked, ackRaised>>

\* writeFile rejects (or the process stops) after the open: enqueue fails and the
\* file stays as it is.
EnqueueFail ==
  /\ enq.pc = "writing"
  /\ enq' = [enq EXCEPT !.pc = "idle"]
  /\ UNCHANGED <<ovars, fed, svars, clock, dir, enqSeq, dq, ack, acked, ackRaised>>

\* dequeueBatch(maxItems) up to the end of readdir/filter/sort/slice.
DequeueBegin(maxItems) ==
  LET files == ListFiles(dir, maxItems) IN
  /\ dq.pc \in {"idle", "done"}
  /\ dq' = [pc |-> IF files = <<>> THEN "done" ELSE "reading", n |-> maxItems,
            files |-> files, items |-> <<>>, err |-> "none"]
  /\ UNCHANGED <<ovars, fed, svars, clock, dir, enqSeq, enq, ack, acked, ackRaised>>

\* One turn of the read loop: readFile and JSON.parse of the next listed file.
DequeueRead ==
  LET id == dq.files[Len(dq.items) + 1] IN
  /\ dq.pc = "reading"
  /\ IF id \notin DirIds(dir)
       THEN dq' = [dq EXCEPT !.pc = "done", !.err = "ENOENT", !.items = <<>>]
       ELSE IF ~FileOf(dir, id).complete
         THEN dq' = [dq EXCEPT !.pc = "done", !.err = "SyntaxError", !.items = <<>>]
         ELSE LET items == Append(dq.items, FileOf(dir, id)) IN
              dq' = [dq EXCEPT !.items = items,
                               !.pc = IF Len(items) = Len(dq.files) THEN "done" ELSE "reading"]
  /\ UNCHANGED <<ovars, fed, svars, clock, dir, enqSeq, enq, ack, acked, ackRaised>>

\* The ids a caller may hand to ack: ids of messages, and one of no message.
AckCandidates == UsedIds \cup {BogusId}

\* ack(ids) up to Promise.all: every unlink is issued.
AckBegin(ids) ==
  /\ ack.pc \in {"idle", "done"}
  /\ ids # {}
  /\ ack' = [pc |-> "unlinking", ids |-> ids, pending |-> ids,
             reack |-> (ids \cap acked \cap Range(enqSeq) # {})]
  /\ UNCHANGED <<ovars, fed, svars, clock, dir, enqSeq, enq, dq, acked, ackRaised>>

\* One of the issued unlinks settles; ack returns when the last one has.
AckUnlink(id) ==
  LET out == UnlinkOutcome(dir, id) IN
  /\ ack.pc = "unlinking"
  /\ id \in ack.pending
  /\ dir' = out.dir
  /\ ackRaised' = (ackRaised \/ out.raised)
  /\ acked' = acked \cup {id}
  /\ ack' = [ack EXCEPT !.pending = ack.pending \ {id},
                        !.pc = IF ack.pending = {id} THEN "done" ELSE "unlinking"]
  /\ UNCHANGED <<ovars, fed, svars, clock, enqSeq, enq, dq>>

\* Producer and consumer of one topic, no ack: the consumer stops between its
\* dequeueBatch and its ack, and dequeues again.
QNext ==
  \/ QTick
  \/ \E payload \in QPayloads, u \in Uuids :
       Len(enqSeq) < MaxEnqueues /\ EnqueueBegin(payload, u)
  \/ EnqueueFinish
  \/ EnqueueFail
  \/ \E maxItems \in 0..MaxItems : DequeueBegin(maxItems)
  \/ DequeueRead

SpecQueue == Init /\ [][QNext]_vars

\* Producer, consumer and ack of one topic.
AckNext ==
  \/ \E u \in Uuids : Len(enqSeq) < MaxAckEnqueues /\ EnqueueBegin("x", u)
  \/ EnqueueFinish
  \/ EnqueueFail
  \/ DequeueBegin(MaxItems)
  \/ DequeueRead
  \/ \E ids \in SUBSET AckCandidates : Cardinality(ids) <= 2 /\ AckBegin(ids)
  \/ \E id \in AckCandidates : AckUnlink(id)

SpecAck == Init /\ [][AckNext]_vars

----------------------------------------------------------------------------
(* Folding SentimentDocs into a fresh OrchestratorState *)

\* processMessage of a sentiment-doc envelope of a rules document without rules:
\* updateStateFromDoc and the lastUpdatedISO stamp.
FeedDoc(doc) ==
  /\ Len(fed) < MaxFed
  /\ state' = [UpdateStateFromDoc(state, doc) EXCEPT !.lastUpdated = clock]
  /\ fed' = Append(fed, doc)
  /\ UNCHANGED <<qvars, svars, rules, triggers, lastRuleTrigger, lastNotified, poll, ticks, processed>>

FoldNext == \E doc \in FoldDocs : FeedDoc(doc)

SpecFold == Init /\ [][FoldNext]_vars

----------------------------------------------------------------------------
(* OrchestratorRunner: pollOnce() under the setInterval timer *)

\* Timer intervals one behaviour spans.
MaxIntervals == 24

\* Runs of timer callbacks that find the topic empty, in intervals: with the
\* callback that follows, 19 and 21 intervals (4:45 and 5:15 minutes).
QuietGaps == {18, 20}

\* requestAction(): action?.action ?? null
Actions == {"null", "noop"}

Intervals == (clock - ClockStart) \div PollIntervalMs

AllIdle == \A p \in Pollers : poll[p].pc = "idle"

\* new OrchestratorRunner(options) and initialize(): the rules document is loaded.
OrchInit(rulesDoc) ==
  /\ QInit
  /\ rules = rulesDoc
  /\ state = InitialState
  /\ triggers = <<>>
  /\ lastRuleTrigger = [id \in RuleIds |-> Absent]
  /\ lastNotified = [id \in RuleIds |-> Absent]
  /\ poll = [p \in Pollers |-> IdlePoll]
  /\ ticks = 0
  /\ processed = <<>>
  /\ fed = <<>>
  /\ NoCollector
  /\ NoAnalyzer

\* The Analyzer's outputQueue.enqueue(envelope), start to end.
Produce(env, u) ==
  LET id == <<clock, u>> IN
  /\ Len(enqSeq) < MaxProduced
  /\ id \notin UsedIds
  /\ dir' = CompleteFile(CreateFile(dir, id, env, clock), id)
  /\ enqSeq' = Append(enqSeq, id)
  /\ UNCHANGED <<ovars, fed, svars, clock, enq, dq, ack, acked, ackRaised>>

\* Timer callbacks that find the topic empty: pollOnce() returns at once.
QuietTicks(k) ==
  /\ dir = {}
  /\ Intervals + k <= MaxIntervals
  /\ clock' = clock + k * PollIntervalMs
  /\ UNCHANGED <<ovars, fed, svars, dir, enqSeq, enq, dq, ack, acked, ackRaised>>

\* dequeueBatch(50) of pollOnce(): every file of the topic here is complete.
PollBatch(d) ==
  LET files == ListFiles(d, PollBatchSize)
  IN [k \in 1..Len(files) |->
        [id |-> files[k], payload |-> FileOf(d, files[k]).payload]]

\* The setInterval callback: a new pollOnce(), whatever the earlier ones are doing.
TimerTick ==
  /\ ticks < MaxTicks
  /\ Intervals < MaxIntervals
  /\ \E p \in Pollers :
       /\ poll[p].pc = "idle"
       /\ \A p2 \in Pollers : poll[p2].pc = "idle" => p <= p2
       /\ poll' = [poll EXCEPT ![p] =
            IF dir = {} THEN IdlePoll
            ELSE [IdlePoll EXCEPT !.pc = "process", !.batch = PollBatch(dir), !.i = 1]]
  /\ clock' = clock + PollIntervalMs
  /\ ticks' = ticks + 1
  /\ UNCHANGED <<rules, state, triggers, lastRuleTrigger, lastNotified, processed, fed, svars,
                 dir, enqSeq, enq, dq, ack, acked, ackRaised>>

\* evaluateRules() from rule k on, up to its next await: the poller p after it, given
\* the state and the map it reads.  No rule fires: processMessage() returns and the
\* loop of pollOnce() goes to the next message, or to ack().
EvaluateFrom(p, k, st, lrt) ==
  LET j == FirstFiring(rules, st, lrt, clock, k)
      cur == [poll[p] EXCEPT !.now = 0, !.action = "none"]
  IN IF j # 0
       THEN [cur EXCEPT !.pc = "sendObservation", !.r = j, !.now = clock]
     ELSE IF cur.i < Len(cur.batch)
       THEN [cur EXCEPT !.pc = "process", !.i = cur.i + 1, !.r = 0]
     ELSE [cur EXCEPT !.pc = "ack", !.r = 0]

Processed(p) ==
  Append(processed, [id |-> poll[p].batch[poll[p].i].id,
                     kind |-> poll[p].batch[poll[p].i].payload.kind,
                     at |-> clock])

\* processMessage(message.payload) up to its first await.
StartMessage(p) ==
  LET msg == poll[p].batch[poll[p].i].payload IN
  /\ poll[p].pc = "process"
  /\ IF msg.kind = "sentiment-doc"
       THEN LET st == [UpdateStateFromDoc(state, msg.data) EXCEPT !.lastUpdated = clock]
            IN /\ state' = st
               /\ processed' = Processed(p)
               /\ poll' = [poll EXCEPT ![p] = EvaluateFrom(p, 1, st, lastRuleTrigger)]
       ELSE /\ state' = UpdateStateFromTrend(state, msg.data)
            /\ processed' = processed
            /\ poll' = [poll EXCEPT ![p].pc = "publishTrend"]
  /\ UNCHANGED <<qvars, rules, triggers, lastRuleTrigger, lastNotified, ticks, fed, svars>>

\* lava.publishTrend([message.data]) resolves: the stamp, then evaluateRules().
PublishTrendDone(p) ==
  LET st == [state EXCEPT !.lastUpdated = clock] IN
  /\ poll[p].pc = "publishTrend"
  /\ state' = st
  /\ processed' = Processed(p)
  /\ poll' = [poll EXCEPT ![p] = EvaluateFrom(p, 1, st, lastRuleTrigger)]
  /\ UNCHANGED <<qvars, rules, triggers, lastRuleTrigger, lastNotified, ticks, fed, svars>>

\* fetchAgents.sendObservation(...) resolves.
SendObservationDone(p) ==
  /\ poll[p].pc = "sendObservation"
  /\ poll' = [poll EXCEPT ![p].pc = "requestAction"]
  /\ lastNotified' = [lastNotified EXCEPT ![rules[poll[p].r].id] = poll[p].now]
  /\ UNCHANGED <<qvars, rules, state, triggers, lastRuleTrigger, ticks, processed, fed, svars>>

\* fetchAgents.requestAction(...) resolves.
RequestActionDone(p, a) ==
  /\ poll[p].pc = "requestAction"
  /\ poll' = [poll EXCEPT ![p].pc = "publishTrigger", ![p].action = a]
  /\ UNCHANGED <<qvars, rules, state, triggers, lastRuleTrigger, lastNotified, ticks, processed, fed, svars>>

\* lava.publishTrigger(...) resolves: the record is pushed, triggerRule() returns,
\* evaluateRules() stores the time it read before the calls and goes on with the
\* next rule.  payload.triggeredAt is read in the same step as that time.
PublishTriggerDone(p) ==
  LET rule == rules[poll[p].r]
      record == [id |-> <<rule.id, clock>>, ruleId |-> rule.id,
                 agentName |-> rule.agentName, message |-> rule.message,
                 triggeredAt |-> poll[p].now, action |-> poll[p].action]
      lrt == [lastRuleTrigger EXCEPT ![rule.id] = poll[p].now]
  IN
  /\ poll[p].pc = "publishTrigger"
  /\ triggers' = PushTrigger(triggers, record)
  /\ lastRuleTrigger' = lrt
  /\ poll' = [poll EXCEPT ![p] = EvaluateFrom(p, poll[p].r + 1, state, lrt)]
  /\ UNCHANGED <<qvars, rules, state, lastNotified, ticks, processed, fed, svars>>

\* An awaited call rejects: the catch of pollOnce() logs it; nothing is acked.
CallFails(p) ==
  /\ poll[p].pc \in {"publishTrend", "sendObservation", "requestAction", "publishTrigger"}
  /\ poll' = [poll EXCEPT ![p] = IdlePoll]
  /\ UNCHANGED <<qvars, rules, state, triggers, lastRuleTrigger, lastNotified, ticks, processed, fed, svars>>

RECURSIVE UnlinkAll(_, _)
UnlinkAll(d, ids) ==
  IF ids = {} THEN d
  ELSE LET id == CHOOSE x \in ids : TRUE
       IN UnlinkAll(UnlinkOutcome(d, id).dir, ids \ {id})

\* queue.ack(messages.map((message) => message.id)), start to end.
AckBatch(p) ==
  LET ids == {poll[p].batch[k].id : k \in 1..Len(poll[p].batch)} IN
  /\ poll[p].pc = "ack"
  /\ dir' = UnlinkAll(dir, ids)
  /\ acked' = acked \cup ids
  /\ poll' = [poll EXCEPT ![p] = IdlePoll]
  /\ UNCHANGED <<rules, state, triggers, lastRuleTrigger, lastNotified, ticks, processed, fed, svars,
                 clock, enqSeq, enq, dq, ack, ackRaised>>

PollStep(p) ==
  \/ StartMessage(p)
  \/ PublishTrendDone(p)
  \/ SendObservationDone(p)
  \/ \E a \in Actions : RequestActionDone(p, a)
  \/ PublishTriggerDone(p)
  \/ CallFails(p)
  \/ AckBatch(p)

\* The Orchestrator as start() runs it.
Next ==
  \/ \E env \in Envelopes, u \in Uuids : Produce(env, u)
  \/ \E k \in QuietGaps : QuietTicks(k)
  \/ TimerTick
  \/ \E p \in Pollers : PollStep(p)

Spec == OrchInit(RulesDoc) /\ [][Next]_vars

\* One rule with threshold 0 and minVolume 0, and trend points only.
CooldownNext ==
  \/ \E env \in TrendEnvelopes, u \in Uuids : Produce(env, u)
  \/ \E k \in QuietGaps : QuietTicks(k)
  \/ TimerTick
  \/ \E p \in Pollers : PollStep(p)

SpecCooldown == OrchInit(<<Rule1>>) /\ [][CooldownNext]_vars

----------------------------------------------------------------------------
(* CollectorRunner: runOnce() under start() and its timer *)

CollectInit ==
  /\ QInit
  /\ NoOrchestrator
  /\ config \in {[allowAllLangs |-> FALSE], [allowAllLangs |-> TRUE]}
  /\ seen = {}
  /\ lastRunISO = Absent
  /\ crun = [r \in Runners |-> IdleRun]
  /\ cleanTopic = <<>>
  /\ handled = <<>>
  /\ archive = <<>>
  /\ feed = <<>>
  /\ cstage = "new"
  /\ NoAnalyzer

\* start(): the first runOnce(), awaited before the timer is set.
CollectorStart ==
  /\ cstage = "new"
  /\ cstage' = "first"
  /\ crun' = [crun EXCEPT ![1] = [IdleRun EXCEPT !.pc = "fetch", !.since = lastRunISO]]
  /\ clock' = clock + 1
  /\ UNCHANGED <<config, feed, seen, lastRunISO, cleanTopic, handled, archive, fed, avars, ovars,
                 dir, enqSeq, enq, dq, ack, acked, ackRaised>>

\* The setInterval callback: a new runOnce(), whatever the earlier ones are
\* doing; it reads since and awaits source.fetch().
CollectorTick ==
  /\ cstage = "timer"
  /\ ticks < MaxCollectorTicks
  /\ \E r \in Runners :
       /\ crun[r].pc = "idle"
       /\ \A r2 \in Runners : crun[r2].pc = "idle" => r <= r2
       /\ crun' = [crun EXCEPT ![r] = [IdleRun EXCEPT !.pc = "fetch", !.since = lastRunISO]]
  /\ ticks' = ticks + 1
  /\ clock' = clock + 1
  /\ UNCHANGED <<config, feed, seen, lastRunISO, cleanTopic, handled, archive, cstage, fed, avars,
                 rules, state, triggers, lastRuleTrigger, lastNotified, poll, processed,
                 dir, enqSeq, enq, dq, ack, acked, ackRaised>>

\* start() after a runOnce() that resolved: the first one sets the timer.
StageResolved(finishes) == IF finishes /\ cstage = "first" THEN "timer" ELSE cstage

\* start() after a runOnce() that rejected: the first one rejects start(), and
\* the command line exits the process.
StageRejected == IF cstage = "first" THEN "exited" ELSE cstage

\* The run r after the item it is at: the next item, or the end of the loop
\* (lastRunISO is stored in the same step).
AfterItem(r) ==
  IF crun[r].i < Len(crun[r].items)
    THEN [crun[r] EXCEPT !.pc = "item", !.i = crun[r].i + 1]
    ELSE IdleRun

\* The end of the loop taken for reached after any item.
FinishesRunEachItem(r) == crun[r].i >= 1

FinishesRun(r) == crun[r].i >= Len(crun[r].items)

\* source.fetch() resolves with its items.
FetchDone(r, items) ==
  /\ crun[r].pc = "fetch"
  /\ crun' = [crun EXCEPT ![r] = [crun[r] EXCEPT !.pc = "item", !.items = items, !.i = 1]]
  /\ UNCHANGED <<config, feed, seen, lastRunISO, cleanTopic, handled, archive, cstage, fed, avars, qvars, ovars>>

\* The loop body up to its first await: the dedupe key, seen.has, seen.add.
HandleItem(r) ==
  LET raw == crun[r].items[crun[r].i]
      dedupeKey == DedupeKey(raw)
  IN
  /\ crun[r].pc = "item"
  /\ handled' = Append(handled, raw)
  /\ IF dedupeKey \in seen
       THEN /\ seen' = seen
            /\ crun' = [crun EXCEPT ![r] = AfterItem(r)]
            /\ lastRunISO' = IF FinishesRun(r) THEN clock ELSE lastRunISO
            /\ cstage' = StageResolved(FinishesRun(r))
       ELSE /\ seen' = seen \cup {dedupeKey}
            /\ crun' = [crun EXCEPT ![r].pc = "append"]
            /\ lastRunISO' = lastRunISO
            /\ cstage' = cstage
  /\ UNCHANGED <<config, feed, cleanTopic, archive, fed, avars, qvars, ovars>>

\* appendJsonl(rawDataPath, raw) resolves; cleanPost(raw): dropped by the language
\* filter, rejected by CleanPostSchema.parse (runOnce() rejects), or kept.
AppendDone(r) ==
  LET raw == crun[r].items[crun[r].i] IN
  /\ crun[r].pc = "append"
  /\ IF ~PassesFilter(raw, config.allowAllLangs)
       THEN /\ crun' = [crun EXCEPT ![r] = AfterItem(r)]
            /\ lastRunISO' = IF FinishesRun(r) THEN clock ELSE lastRunISO
            /\ cstage' = StageResolved(FinishesRun(r))
     ELSE IF ~ParsesClean(raw)
       THEN /\ crun' = [crun EXCEPT ![r] = IdleRun]
            /\ lastRunISO' = lastRunISO
            /\ cstage' = StageRejected
     ELSE /\ crun' = [crun EXCEPT ![r].pc = "enqueue"]
          /\ lastRunISO' = lastRunISO
          /\ cstage' = cstage
  /\ archive' = Append(archive, raw)
  /\ UNCHANGED <<config, feed, seen, cleanTopic, handled, fed, avars, qvars, ovars>>

\* queue.enqueue(clean) resolves.
EnqueueCleanDone(r) ==
  /\ crun[r].pc = "enqueue"
  /\ cleanTopic' = Append(cleanTopic, CleanPost(crun[r].items[crun[r].i]))
  /\ crun' = [crun EXCEPT ![r] = AfterItem(r)]
  /\ lastRunISO' = IF FinishesRun(r) THEN clock ELSE lastRunISO
  /\ cstage' = StageResolved(FinishesRun(r))
  /\ UNCHANGED <<config, feed, seen, handled, archive, fed, avars, qvars, ovars>>

\* appendJsonl() or queue.enqueue() rejects: runOnce() rejects and the callback
\* logs it.
CollectorCallFails(r) ==
  /\ crun[r].pc \in {"append", "enqueue"}
  /\ crun' = [crun EXCEPT ![r] = IdleRun]
  /\ cstage' = StageRejected
  /\ UNCHANGED <<config, feed, seen, lastRunISO, cleanTopic, handled, archive, fed, avars, qvars, ovars>>

CollectNext ==
  \/ CollectorStart
  \/ CollectorTick
  \/ \E r \in Runners :
       \/ \E items \in Fetches : FetchDone(r, items)
       \/ HandleItem(r)
       \/ AppendDone(r)
       \/ EnqueueCleanDone(r)
       \/ CollectorCallFails(r)

SpecCollect == CollectInit /\ [][CollectNext]_vars

----------------------------------------------------------------------------
(* AnalyzerRunner: pollOnce() under its timer *)

AnalyzeInit ==
  /\ QInit
  /\ NoOrchestrator
  /\ NoCollector
  /\ anthropic \in BOOLEAN
  /\ inbox = <<>>
  /\ analysis = <<>>
  /\ counted = <<>>
  /\ apoll = [p \in AnalyzerPolls |-> IdleAnalyzerPoll]
  /\ NoAdapterCall
  /\ NoMockCall

\* The Collector enqueues a CleanPost on the clean topic (each post once).
ProduceClean(post) ==
  /\ \A k \in 1..Len(cleanTopic) : cleanTopic[k].id # post.id
  /\ cleanTopic' = Append(cleanTopic, post)
  /\ inbox' = Append(inbox, post)
  /\ UNCHANGED <<config, feed, seen, lastRunISO, crun, handled, archive, cstage, retry, mock,
                 anthropic, analysis, counted, apoll, fed, qvars, ovars>>

\* The setInterval callback: pollOnce() dequeues a batch, whatever the earlier
\* polls are doing, and hands it to the adapter; an empty batch ends the poll.
AnalyzerTick ==
  /\ ticks < MaxAnalyzerTicks
  /\ ticks' = ticks + 1
  /\ clock' = clock + 1
  /\ \E p \in AnalyzerPolls :
       /\ apoll[p].pc = "idle"
       /\ \A p2 \in AnalyzerPolls : apoll[p2].pc = "idle" => p <= p2
       /\ apoll' = IF inbox = <<>> THEN apoll
                   ELSE [apoll EXCEPT ![p] = [IdleAnalyzerPoll EXCEPT
                           !.pc = "analyze", !.batch = Slice(inbox, BatchSize)]]
  /\ UNCHANGED <<cvars, retry, mock, anthropic, inbox, analysis, counted, fed,
                 rules, state, triggers, lastRuleTrigger, lastNotified, poll, processed,
                 dir, enqSeq, enq, dq, ack, acked, ackRaised>>

\* The poll p after the document it is at: the next document, or the trend point.
AfterDocs(p, docs, i) ==
  IF i < Len(docs)
    THEN [apoll[p] EXCEPT !.pc = "doc", !.docs = docs, !.i = i + 1]
    ELSE [apoll[p] EXCEPT !.pc = "trend", !.docs = docs, !.i = 0]

\* processBatch() after claude.analyzeBatch() resolved with docs:
\* SentimentDocSchema.parse of one of them may throw, which ends the poll
\* without an ack.
Analyzed(p, docs) ==
  /\ apoll[p].pc = "analyze"
  /\ apoll' = IF \A i \in 1..Len(docs) : ValidSentimentDoc(docs[i])
                THEN [apoll EXCEPT ![p] = [AfterDocs(p, docs, 0) EXCEPT !.outcome = "analyzed"]]
                ELSE [apoll EXCEPT ![p] = AnalyzerCaught(apoll[p])]
  /\ UNCHANGED <<cvars, retry, mock, anthropic, inbox, analysis, counted, fed, qvars, ovars>>

\* claude.analyzeBatch() resolves with its documents.
AnalyzeDone(p, docs) ==
  /\ apoll[p].pc = "analyze"
  /\ docs \in (IF anthropic THEN ServiceDocuments(apoll[p].batch)
               ELSE {MockDocuments(apoll[p].batch)})
  /\ Analyzed(p, docs)

\* appendJsonl(doc) and outputQueue.enqueue({ kind: "sentiment-doc" }) resolve.
EnqueueDocDone(p) ==
  /\ apoll[p].pc = "doc"
  /\ analysis' = Append(analysis, [kind |-> "sentiment-doc", data |-> apoll[p].docs[apoll[p].i]])
  /\ apoll' = [apoll EXCEPT ![p] = [AfterDocs(p, apoll[p].docs, apoll[p].i) EXCEPT
                  !.sent = Append(@, [kind |-> "sentiment-doc", data |-> apoll[p].docs[apoll[p].i]])]]
  /\ UNCHANGED <<cvars, retry, mock, anthropic, inbox, counted, fed, qvars, ovars>>

\* trendPointFromDocs(docs): null for no document; otherwise the trend point is
\* enqueued. Then the batch is acked.
EnqueueTrendDone(p) ==
  /\ apoll[p].pc = "trend"
  /\ IF apoll[p].docs = <<>>
       THEN /\ UNCHANGED <<analysis, counted>>
            /\ apoll' = [apoll EXCEPT ![p].pc = "ack"]
       ELSE LET envelope == [kind |-> "trend-point",
                             data |-> TrendPointFromDocs(apoll[p].docs, clock)]
            IN /\ analysis' = Append(analysis, envelope)
               /\ counted' = Append(counted, [k \in 1..Len(apoll[p].docs) |-> apoll[p].docs[k].postId])
               /\ apoll' = [apoll EXCEPT ![p].pc = "ack", ![p].sent = Append(@, envelope)]
  /\ UNCHANGED <<cvars, retry, mock, anthropic, inbox, fed, qvars, ovars>>

\* inputQueue.ack(ids) resolves: the messages of the batch leave the clean topic.
AnalyzerAckDone(p) ==
  /\ apoll[p].pc = "ack"
  /\ inbox' = SelectSeq(inbox, LAMBDA post : \A k \in 1..Len(apoll[p].batch) : apoll[p].batch[k].id # post.id)
  /\ apoll' = [apoll EXCEPT ![p] = AnalyzerAcked]
  /\ UNCHANGED <<cvars, retry, mock, anthropic, analysis, counted, fed, qvars, ovars>>

\* analyzeBatch(), appendJsonl(), enqueue() or ack() (its ensureDir) rejects: the
\* catch of pollOnce() logs it and the batch is not acked.
AnalyzerCallFails(p) ==
  /\ apoll[p].pc \in {"analyze", "doc", "trend", "ack"}
  /\ apoll[p].pc = "trend" => apoll[p].docs # <<>>
  /\ apoll' = [apoll EXCEPT ![p] = AnalyzerCaught(apoll[p])]
  /\ UNCHANGED <<cvars, retry, mock, anthropic, inbox, analysis, counted, fed, qvars, ovars>>

AnalyzeNext ==
  \/ \E post \in AnalyzerPosts : ProduceClean(post)
  \/ AnalyzerTick
  \/ \E p \in AnalyzerPolls :
       \/ \E docs \in ServiceDocuments(apoll[p].batch) : AnalyzeDone(p, docs)
       \/ EnqueueDocDone(p)
       \/ EnqueueTrendDone(p)
       \/ AnalyzerAckDone(p)
       \/ AnalyzerCallFails(p)

SpecAnalyze == AnalyzeInit /\ [][AnalyzeNext]_vars

----------------------------------------------------------------------------
(* ClaudeClient.analyzeBatch: one call, step by step *)

\* Calls of messages.create() the model follows in one analyzeBatch().
MaxCalls == 6

RetryInit ==
  /\ QInit
  /\ NoOrchestrator
  /\ NoCollector
  /\ anthropic = TRUE
  /\ inbox = <<>>
  /\ analysis = <<>>
  /\ counted = <<>>
  /\ apoll = [p \in AnalyzerPolls |-> IdleAnalyzerPoll]
  /\ retry \in {NewCall(options) : options \in ClientOptions}
  /\ NoMockCall

\* analyzeBatch(event, posts) up to its first await: the prompt, attempt = 0, the
\* loop test and messages.create().
AnalyzeBatchBegin ==
  /\ retry.pc = "idle"
  /\ retry' = [retry EXCEPT !.pc = IF LoopContinues(retry.options, 0) THEN "create" ELSE "thrown",
                            !.error = IF LoopContinues(retry.options, 0) THEN NoError ELSE LoopError]
  /\ UNCHANGED <<cvars, pvars, mock, fed, qvars, ovars>>

\* messages.create() resolves and its text is a JSON array: the documents are
\* returned; an exception of the map would reach the catch as an error with no
\* status, which is rethrown.
CreateResolves(parsed) ==
  /\ retry.pc = "create"
  /\ retry' = IF MapThrows(parsed)
                THEN [retry EXCEPT !.pc = "thrown", !.attempt = NextAttempt(@),
                                   !.outcomes = Append(@, Failed(Absent)),
                                   !.error = CallError(Absent), !.parsed = parsed]
                ELSE [retry EXCEPT !.pc = "returned", !.outcomes = Append(@, Answered),
                                   !.parsed = parsed, !.documents = DocumentsOf(parsed)]
  /\ UNCHANGED <<cvars, pvars, mock, fed, qvars, ovars>>

\* messages.create() rejects with the status, or resolves with a text JSON.parse
\* rejects (no status): the catch counts the attempt, and rethrows or sleeps.
CreateRejects(status, jitter) ==
  LET attempt == NextAttempt(retry.attempt) IN
  /\ retry.pc = "create"
  /\ Len(retry.outcomes) < MaxCalls
  /\ IF Rethrows(retry.options, status, attempt)
       THEN retry' = [retry EXCEPT !.pc = "thrown", !.attempt = attempt,
                                   !.outcomes = Append(@, Failed(status)),
                                   !.error = CallError(status)]
       ELSE retry' = [retry EXCEPT !.pc = "sleep", !.attempt = attempt,
                                   !.outcomes = Append(@, Failed(status)),
                                   !.delays = Append(@, Backoff(retry.options, attempt) + jitter),
                                   !.slept = Append(@, Len(retry.outcomes) + 1)]
  /\ UNCHANGED <<cvars, pvars, mock, fed, qvars, ovars>>

\* sleep(...) resolves: the loop test, then the next messages.create(), or the
\* throw after the loop.
SleepDone ==
  /\ retry.pc = "sleep"
  /\ retry' = IF LoopContinues(retry.options, retry.attempt)
                THEN [retry EXCEPT !.pc = "create"]
                ELSE [retry EXCEPT !.pc = "thrown", !.error = LoopError]
  /\ UNCHANGED <<cvars, pvars, mock, fed, qvars, ovars>>

\* The answer the retry model follows: an array of no item.
RetryResponses == {<<>>}

RetryNext ==
  \/ AnalyzeBatchBegin
  \/ \E parsed \in RetryResponses : CreateResolves(parsed)
  \/ \E status \in Statuses, jitter \in Jitters : CreateRejects(status, jitter)
  \/ SleepDone

SpecRetry == RetryInit /\ [][RetryNext]_vars

\* The event loop runs every continuation that is ready: a settled
\* messages.create(), an expired timer.
SpecRetryLive == SpecRetry /\ WF_vars(RetryNext)

\* analyzeBatch() whose first messages.create() resolves, over the answers.
ParseInit ==
  /\ QInit
  /\ NoOrchestrator
  /\ NoCollector
  /\ anthropic = TRUE
  /\ inbox = <<>>
  /\ analysis = <<>>
  /\ counted = <<>>
  /\ apoll = [p \in AnalyzerPolls |-> IdleAnalyzerPoll]
  /\ retry = NewCall(DefaultOptions)
  /\ NoMockCall

ParseNext ==
  \/ AnalyzeBatchBegin
  \/ \E parsed \in Responses : CreateResolves(parsed)

SpecParse == ParseInit /\ [][ParseNext]_vars

----------------------------------------------------------------------------
(* ClaudeClient.analyzeBatch without an API key: the mock adapter *)

\* Posts in one call of the mock model.
MaxMockPosts == 2

PostPlain == [id |-> "p3", textClean |-> <<"o", "k">>, meta |-> NoMeta]

PostAngry == [id |-> "p4", textClean |-> <<"A", "n", "g", "r", "y">>,
              meta |-> [has |-> TRUE, topics |-> <<>>]]

PostBoth == [id |-> "p5", textClean |-> WordHate \o <<" ">> \o WordAmazing,
             meta |-> [has |-> TRUE, topics |-> <<"a", "b", "c", "d", "e">>]]

\* meta is z.record(z.any()): six topics, and an empty topic.
PostSixTopics == [id |-> "p6", textClean |-> WordLove,
                  meta |-> [has |-> TRUE, topics |-> <<"a", "b", "c", "d", "e", "f">>]]

PostEmptyTopic == [id |-> "p7", textClean |-> <<"o", "k">>,
                   meta |-> [has |-> TRUE, topics |-> <<"">>]]

\* Schema-valid CleanPosts.
MockPosts == {PostLove, PostHate, PostPlain, PostAngry, PostBoth, PostSixTopics, PostEmptyTopic}

MockInit ==
  /\ QInit
  /\ NoOrchestrator
  /\ NoCollector
  /\ anthropic = FALSE
  /\ inbox = <<>>
  /\ analysis = <<>>
  /\ counted = <<>>
  /\ apoll = [p \in AnalyzerPolls |-> IdleAnalyzerPoll]
  /\ NoAdapterCall
  /\ mock \in {[pc |-> "idle", posts |-> posts, documents |-> <<>>] :
                 posts \in UNION {[1..n -> MockPosts] : n \in 0..MaxMockPosts}}

\* analyzeBatch(event, posts) with this.anthropic undefined: the fallback.
MockAnalyzeBatch ==
  /\ mock.pc = "idle"
  /\ ~anthropic
  /\ mock' = [mock EXCEPT !.pc = "returned", !.documents = MockDocuments(mock.posts)]
  /\ UNCHANGED <<cvars, pvars, retry, fed, qvars, ovars>>

MockNext == MockAnalyzeBatch

SpecMock == MockInit /\ [][MockNext]_vars

----------------------------------------------------------------------------
(* The queue contract *)

\* C1 (as claimed): at-least-once.  A dequeueBatch(n) returned batch B and nothing
\* was acked; whatever was enqueued since, the next dequeueBatch(n) lists (and so
\* can return) every message of B again.
C1_Redelivery ==
  [][ (dq.pc = "done" /\ dq.err = "none" /\ dq' # dq /\ dq'.n = dq.n)
        => \A m \in Range(dq.items) : m.id \in Range(dq'.files) ]_vars

C4_OldestNonDestructive ==
  [][ /\ (dq.pc \in {"idle", "done"} /\ dq' # dq) =>
           /\ Len(dq'.files) = Min(dq'.n, Cardinality(dir))
           /\ \A id \in Range(dq'.files), g \in DirIds(dir) \ Range(dq'.files) :
                (FileOf(dir, id).complete /\ FileOf(dir, g).complete) => ~EnqBefore(g, id)
      /\ (dq' # dq) => dir' = dir ]_vars

\* C5 (as claimed): a returned batch is in enqueue order, same millisecond or not.
C5_EnqueueOrder ==
  (dq.pc = "done" /\ dq.err = "none") =>
    \A i, j \in 1..Len(dq.items) :
      EnqBefore(dq.items[i].id, dq.items[j].id) => i < j

\* C6 (as claimed): enqueue is atomic.  No dequeueBatch fails on, or returns, a
\* message whose file is not completely written.
C6_AtomicEnqueue ==
  /\ dq.err # "SyntaxError"
  /\ \A i \in 1..Len(dq.items) : dq.items[i].complete

----------------------------------------------------------------------------
(* The Orchestrator's state and rules *)

\* C7 (as claimed): from one state of a run to the next, whatever envelope is
\* processed, state.volume does not decrease.
C7_VolumeNonDecreasing == [][state'.volume >= state.volume]_vars

\* C8 (as claimed): no two TriggerRecords of one rule are less than 5 minutes apart.
C8_NoRefireInCooldown ==
  \A i, j \in 1..Len(triggers) :
    (i # j /\ triggers[i].ruleId = triggers[j].ruleId)
      => Abs(triggers[i].triggeredAt - triggers[j].triggeredAt) >= CooldownMs

ProcessedTimes(id) == {processed[k].at : k \in {n \in 1..Len(processed) : processed[n].id = id}}

\* Two trend points, both qualifying, were enqueued, processed and acked, and no
\* poll is in flight.
TwoTrendPointsDone ==
  /\ rules = <<Rule1>>
  /\ Len(enqSeq) = 2
  /\ dir = {}
  /\ AllIdle
  /\ \A id \in Range(enqSeq) : ProcessedTimes(id) # {}
  /\ \A k \in 1..Len(processed) : processed[k].kind = "trend-point"

\* C9 (as claimed): with the one rule of threshold 0 and minVolume 0 on a fresh
\* Orchestrator, two qualifying trend points processed less than 5 minutes apart
\* leave exactly one TriggerRecord, and processed more than 5 minutes apart leave
\* exactly two.
C9_CooldownScenario ==
  TwoTrendPointsDone =>
    /\ (\A k, l \in 1..Len(processed) :
          Abs(processed[k].at - processed[l].at) < CooldownMs)
         => Len(triggers) = 1
    /\ (\A t1 \in ProcessedTimes(enqSeq[1]), t2 \in ProcessedTimes(enqSeq[2]) :
          Abs(t2 - t1) > CooldownMs)
         => Len(triggers) = 2

RECURSIVE ExactSum(_)
ExactSum(docs) ==
  IF docs = <<>> THEN RInt(0) ELSE RAdd(Head(docs).score, ExactSum(Tail(docs)))

\* The arithmetic mean of the scores and the fraction of a label, as real numbers.
ExactMean(docs) == RDivInt(ExactSum(docs), Len(docs))

ExactShare(docs, label) == Rat(CountLabel(docs, label), Len(docs))

\* |x - y| <= n units of the rounding error of one operation on a number near 1.
Within(x, y, n) == ~RLess(Rat(n, Pow2(MantBits)), RAbs(RSub(x, y)))

\* C10 (as claimed): after N >= 1 SentimentDocs folded into a fresh state, volume
\* is N and avgScore, posShare and negShare are the numbers that stand for the
\* mean of the scores and the fractions of pos and neg labels.
C10_FoldExact ==
  fed # <<>> =>
    /\ state.volume = Len(fed)
    /\ state.avgScore = Fl(ExactMean(fed))
    /\ state.posShare = Fl(ExactShare(fed, "pos"))
    /\ state.negShare = Fl(ExactShare(fed, "neg"))

\* C10 (amended): after N >= 1 SentimentDocs folded into a fresh state, volume is
\* N, and avgScore, posShare and negShare are within floating-point tolerance (two
\* rounding errors a document) of the mean of the scores and of the fractions of
\* pos and neg.
C10_FoldWithinTolerance ==
  fed # <<>> =>
    /\ state.volume = Len(fed)
    /\ Within(state.avgScore, ExactMean(fed), 2 * Len(fed))
    /\ Within(state.posShare, ExactShare(fed, "pos"), 2 * Len(fed))
    /\ Within(state.negShare, ExactShare(fed, "neg"), 2 * Len(fed))

\* Three or more documents, pos and neg among them, were folded, and avgScore is
\* not the number nearest to their mean.
C10_Witness ==
  /\ Len(fed) >= 3
  /\ CountLabel(fed, "pos") >= 1
  /\ CountLabel(fed, "neg") >= 1
  /\ state.volume = Len(fed)
  /\ state.avgScore # Fl(ExactMean(fed))

----------------------------------------------------------------------------
(* The Collector contract *)

CleanPostsOf(triple) == {k \in 1..Len(cleanTopic) : Triple(cleanTopic[k]) = triple}

\* A RawPost (valid under its schema) that passes the language filter.
PassingRawPost(raw) == PassesFilter(raw, config.allowAllLangs) /\ ParsesClean(raw)

NoRunInFlight == \A r \in Runners : crun[r].pc = "idle"

\* C11 (as claimed): at most one CleanPost is enqueued per (source, id, url)
\* triple, and once the runs are over, two RawPosts of one triple that pass the
\* language filter have produced exactly one CleanPost.
C11_Dedup ==
  /\ \A triple \in {Triple(raw) : raw \in RawPosts} : Cardinality(CleanPostsOf(triple)) <= 1
  /\ NoRunInFlight =>
       \A i, j \in 1..Len(handled) :
         (/\ i < j
          /\ Triple(handled[i]) = Triple(handled[j])
          /\ PassingRawPost(handled[i])
          /\ PassingRawPost(handled[j]))
           => Cardinality(CleanPostsOf(Triple(handled[i]))) = 1

----------------------------------------------------------------------------
(* The Analyzer contract *)

\* The sentiment-doc envelopes on the analysis topic that are about the post.
DocsOfPost(id) ==
  {k \in 1..Len(analysis) : analysis[k].kind = "sentiment-doc" /\ analysis[k].data.postId = id}

\* The times the post is counted in the volume of a trend point.
CountsOfPost(id) ==
  {<<t, k>> \in (1..Len(counted)) \X (1..BatchSize) : k <= Len(counted[t]) /\ counted[t][k] = id}

\* The post was acked: no later poll will see it.
Settled(post) ==
  /\ \E k \in 1..Len(cleanTopic) : cleanTopic[k] = post
  /\ \A k \in 1..Len(inbox) : inbox[k] # post
  /\ \A p \in AnalyzerPolls : apoll[p].pc = "idle"

\* C12 (as claimed): a CleanPost of the clean topic never has more than one
\* SentimentDoc on the analysis topic, is never counted more than once in the
\* volume of a trend point, and once its batch is acked (the adapter call did not
\* fail) it has exactly one of each.
C12_ExactlyOne ==
  \A post \in AnalyzerPosts :
    /\ Cardinality(DocsOfPost(post.id)) <= 1
    /\ Cardinality(CountsOfPost(post.id)) <= 1
    /\ Settled(post) =>
         /\ Cardinality(DocsOfPost(post.id)) = 1
         /\ Cardinality(CountsOfPost(post.id)) = 1

----------------------------------------------------------------------------
(* The Orchestrator under re-delivery *)

\* processMessage(payload): what it does to the aggregate.
ApplyEnvelope(st, env) ==
  IF env.kind = "sentiment-doc" THEN UpdateStateFromDoc(st, env.data)
  ELSE UpdateStateFromTrend(st, env.data)

\* The loop of pollOnce() over a batch, run once from the state st.
RECURSIVE ApplyBatch(_, _)
ApplyBatch(st, batch) ==
  IF batch = <<>> THEN st
  ELSE ApplyBatch(ApplyEnvelope(st, Head(batch).payload), Tail(batch))

\* The aggregate of a state: everything but the time of the last update.
Aggregate(st) == [st EXCEPT !.lastUpdated = Absent]

\* The poll p has processed its batch and is about to ack it; the batch holds
\* every envelope enqueued so far, and nothing was acked before.
FirstBatchProcessed(p) ==
  /\ poll[p].pc = "ack"
  /\ acked = {}
  /\ Len(poll[p].batch) = Len(enqSeq)

\* C13 (as claimed): when a batch has been processed, after however many
\* deliveries that were not acked, the state is the state of processing the
\* batch exactly once.
C13_IdempotentAggregation ==
  \A p \in Pollers :
    FirstBatchProcessed(p) => Aggregate(state) = Aggregate(ApplyBatch(InitialState, poll[p].batch))

----------------------------------------------------------------------------
(* The analysis adapter contract: retries *)

\* Calls of messages.create() so far.
Calls == Len(retry.outcomes)

AllRetryable == \A k \in 1..Calls : ~retry.outcomes[k].ok /\ Retryable(retry.outcomes[k].status)

Terminated == retry.pc \in {"returned", "thrown"}

\* The service was called maxRetries + 1 times and failed each time with a
\* retryable status: analyzeBatch() has thrown the last failure.
FailurePropagates ==
  (Calls = retry.options.maxRetries + 1 /\ AllRetryable)
    => (retry.pc = "thrown" /\ retry.error = CallError(retry.outcomes[Calls].status))

\* C14: analyzeBatch() with a key returns or throws; the service is called at
\* most maxRetries + 1 times, and when every call failed with a retryable
\* status the last failure is thrown to the caller.
C14_BoundedRetry ==
  /\ [](Calls <= retry.options.maxRetries + 1 /\ FailurePropagates)
  /\ <>Terminated

\* Four calls under the default options, each answered 429 or 5xx, and the throw.
C14_Witness ==
  /\ retry.options = DefaultOptions
  /\ Calls = DefaultMaxRetries + 1
  /\ AllRetryable
  /\ retry.pc = "thrown"

\* The calls that were followed by a sleep are the calls that failed with a
\* retryable status and were not the last the loop allows.
DelayedCalls ==
  {k \in 1..Calls : /\ ~retry.outcomes[k].ok
                    /\ Retryable(retry.outcomes[k].status)
                    /\ k <= retry.options.maxRetries}

SleptCalls == {retry.slept[k] : k \in 1..Len(retry.slept)}

\* initialBackoffMs * backoffMultiplier^(k-1), computed by repeated multiplication.
RECURSIVE MinDelay(_, _)
MinDelay(options, k) ==
  IF k = 1 THEN options.initialBackoffMs ELSE options.backoffMultiplier * MinDelay(options, k - 1)

\* 429, 429, success under maxRetries = 3 and the default delays.
Scenario429 ==
  /\ retry.options = DefaultOptions
  /\ retry.outcomes = <<Failed(429), Failed(429), Answered>>

\* C15: one delay after each retryable failure that is followed by another
\* attempt and no other delay; the k-th delay is at least
\* initialBackoffMs * backoffMultiplier^(k-1) and less than that plus 250 ms;
\* 429, 429, success returns after exactly 2 delays of at least 1000 and 2000 ms.
C15_BackoffSchedule ==
  /\ Len(retry.delays) = Len(retry.slept)
  /\ Cardinality(SleptCalls) = Len(retry.slept)
  /\ SleptCalls = DelayedCalls
  /\ \A k \in 1..Len(retry.delays) :
       /\ retry.delays[k] >= MinDelay(retry.options, k)
       /\ retry.delays[k] < MinDelay(retry.options, k) + JitterMs
  /\ Scenario429 =>
       /\ retry.pc = "returned"
       /\ Len(retry.delays) = 2
       /\ retry.delays[1] >= 1000
       /\ retry.delays[2] >= 2000

\* 429, 429, success has happened.
C15_Witness == Scenario429 /\ retry.pc = "returned"

----------------------------------------------------------------------------
(* The analysis adapter contract: no credential *)

\* The label and score the claim gives for a text.
HeuristicLabel(text) ==
  LET lower == ToLowerCase(text) IN
  IF Includes(lower, WordLove) \/ Includes(lower, WordAmazing)
    THEN [sentiment |-> "pos", score |-> Fl(Rat(3, 5))]
  ELSE IF Includes(lower, WordHate) \/ Includes(lower, WordAngry)
    THEN [sentiment |-> "neg", score |-> Fl(Rat(-3, 5))]
  ELSE [sentiment |-> "neu", score |-> RInt(0)]

\* C16 (as claimed): without a key analyzeBatch() calls no service and returns
\* one document per post, in order, with the post's id, valid under the
\* SentimentDoc schema, labelled by the keywords of the text.
C16_MockAdapter ==
  mock.pc = "returned" =>
    /\ Calls = 0
    /\ Len(mock.documents) = Len(mock.posts)
    /\ \A k \in 1..Len(mock.posts) :
         /\ mock.documents[k].postId = mock.posts[k].id
         /\ ValidSentimentDoc(mock.documents[k])
         /\ mock.documents[k].sentiment = HeuristicLabel(mock.posts[k].textClean).sentiment
         /\ mock.documents[k].score = HeuristicLabel(mock.posts[k].textClean).score

----------------------------------------------------------------------------
(* Topic ranking *)

\* The topics of the documents fed, in the order they were incremented.
RECURSIVE TopicsFed(_)
TopicsFed(docs) == IF docs = <<>> THEN <<>> ELSE Head(docs).topics \o TopicsFed(Tail(docs))

TopicCount(topic) == Cardinality({k \in 1..Len(TopicsFed(fed)) : TopicsFed(fed)[k] = topic})

FirstInserted(topic) ==
  CHOOSE k \in 1..Len(TopicsFed(fed)) :
    /\ TopicsFed(fed)[k] = topic
    /\ \A j \in 1..(k - 1) : TopicsFed(fed)[j] # topic

\* t ranks before u: a higher count, or the same count and inserted earlier.
RanksBefore(t, u) ==
  \/ TopicCount(t) > TopicCount(u)
  \/ TopicCount(t) = TopicCount(u) /\ FirstInserted(t) < FirstInserted(u)

RECURSIVE Ranking(_, _)
Ranking(topics, n) ==
  IF topics = {} \/ n = 0 THEN <<>>
  ELSE LET best == CHOOSE t \in topics : \A u \in topics \ {t} : RanksBefore(t, u)
       IN <<best>> \o Ranking(topics \ {best}, n - 1)

\* C17 (as claimed): after any sequence of sentiment-docs, topTopics lists the at
\* most 5 topics of highest count, by count descending, equal counts in the
\* order of first insertion into topicCounts.
C17_TopicRanking ==
  state.topTopics = Ranking(Range(TopicsFed(fed)), TopTopicsCap)

----------------------------------------------------------------------------
(* The trend point of a batch *)

\* The trend-point envelopes the poll p has enqueued.
TrendsSent(p) == SelectSeq(apoll[p].sent, LAMBDA e : e.kind = "trend-point")

\* The topics of the documents, most frequent first, equal counts in first-seen
\* order, at most 5.
RECURSIVE TopicsOf(_)
TopicsOf(docs) == IF docs = <<>> THEN <<>> ELSE Head(docs).topics \o TopicsOf(Tail(docs))

FrequencyIn(all, topic) == Cardinality({k \in 1..Len(all) : all[k] = topic})

FirstSeenIn(all, topic) == CHOOSE k \in 1..Len(all) : all[k] = topic /\ \A j \in 1..(k - 1) : all[j] # topic

RECURSIVE MostFrequent(_, _, _)
MostFrequent(all, topics, n) ==
  IF topics = {} \/ n = 0 THEN <<>>
  ELSE LET best == CHOOSE t \in topics : \A u \in topics \ {t} :
                     \/ FrequencyIn(all, t) > FrequencyIn(all, u)
                     \/ /\ FrequencyIn(all, t) = FrequencyIn(all, u)
                        /\ FirstSeenIn(all, t) < FirstSeenIn(all, u)
       IN <<best>> \o MostFrequent(all, topics \ {best}, n - 1)

\* The sum of the scores, exactly.
RECURSIVE ScoreSum(_)
ScoreSum(docs) == IF docs = <<>> THEN RInt(0) ELSE RAdd(Head(docs).score, ScoreSum(Tail(docs)))

\* The trend point the claim gives for the documents D (not empty).
IsTrendOf(trend, D) ==
  /\ trend.volume = Len(D)
  /\ trend.avgScore = Fl(RDivInt(ScoreSum(D), Len(D)))
  /\ trend.posShare = Fl(Rat(CountLabel(D, "pos"), Len(D)))
  /\ trend.negShare = Fl(Rat(CountLabel(D, "neg"), Len(D)))
  /\ trend.topTopics = MostFrequent(TopicsOf(D), Range(TopicsOf(D)), TopTopicsCap)

\* C18 (as claimed): a poll that has processed its batch and is about to ack it
\* has enqueued exactly one trend-point, with the volume, mean, shares and top
\* topics of the documents the adapter returned.
C18_TrendPerBatch ==
  \A p \in AnalyzerPolls :
    apoll[p].pc = "ack" =>
      /\ Len(TrendsSent(p)) = 1
      /\ IsTrendOf(TrendsSent(p)[1].data, apoll[p].docs)

----------------------------------------------------------------------------
(* Scheduling of the stages and snapshot reads *)

RunsInFlight == {r \in Runners : crun[r].pc # "idle"}

AnalyzerPollsInFlight == {p \in AnalyzerPolls : apoll[p].pc # "idle"}

PollsInFlight == {p \in Pollers : poll[p].pc # "idle"}

\* C19 (as claimed): of each stage at most one runOnce()/pollOnce() is in flight.
C19_NoOverlap ==
  /\ Cardinality(RunsInFlight) <= 1
  /\ Cardinality(AnalyzerPollsInFlight) <= 1
  /\ Cardinality(PollsInFlight) <= 1

\* The slice(-20) of getState().
SnapshotTriggers == 20

\* getState(): the state object itself, read when the response is serialised,
\* and a copy of the last 20 triggers.
GetState == [state |-> state, triggers |-> LastN(triggers, SnapshotTriggers)]

\* The states a reader may see one after the other differ by the complete
\* processing of an envelope: the update of the aggregate and the time stamp.
WholeUpdate(before, after, now) ==
  \E env \in Envelopes :
    /\ Aggregate(after) = Aggregate(ApplyEnvelope(before, env))
    /\ after.lastUpdated = now

\* C20 (as claimed): every snapshot is the state before or after the processing
\* of an envelope; no step of the poll loop leaves a partially applied update
\* for getState() to return.
C20_SnapshotAtomic ==
  [][GetState'.state = GetState.state \/ WholeUpdate(GetState.state, GetState'.state, clock')]_vars

----------------------------------------------------------------------------
(* C21: the Analyzer acks after every step of the batch succeeded *)

\* The envelopes a poll has to have enqueued before its ack: one sentiment-doc
\* per document, in order, then the trend point of the documents (if any).
EnvelopesDue(pl) ==
  [k \in 1..Len(pl.docs) |-> [kind |-> "sentiment-doc", data |-> pl.docs[k]]]

AllStepsSucceeded(pl) ==
  /\ pl.outcome = "analyzed"
  /\ IF pl.docs = <<>>
       THEN pl.sent = <<>>
       ELSE /\ Len(pl.sent) = Len(pl.docs) + 1
            /\ SubSeq(pl.sent, 1, Len(pl.docs)) = EnvelopesDue(pl)
            /\ pl.sent[Len(pl.sent)].kind = "trend-point"

WithoutBatch(messages, batch) ==
  SelectSeq(messages, LAMBDA post : \A k \in 1..Len(batch) : batch[k].id # post.id)

\* How a poll may end: by its ack after every step, or by the catch.
PollsEndRight ==
  \A p \in AnalyzerPolls :
    (apoll[p].pc # "idle" /\ apoll'[p].pc = "idle") =>
      \/ /\ apoll[p].pc = "ack"
         /\ AllStepsSucceeded(apoll[p])
         /\ apoll'[p].outcome = "acked"
         /\ inbox' = WithoutBatch(inbox, apoll[p].batch)
      \/ /\ apoll'[p].outcome = "logged"
         /\ inbox' = inbox

AckedByAnAck ==
  Len(inbox') < Len(inbox) =>
    \E p \in AnalyzerPolls : apoll[p].pc = "ack" /\ apoll'[p].outcome = "acked"

AckIsLast ==
  \A p \in AnalyzerPolls : apoll'[p].pc = "ack" => AllStepsSucceeded(apoll'[p])

\* C21: a poll of the Analyzer ends either by the ack of its batch, and then the
\* adapter call and the enqueue of every sentiment-doc envelope and of the trend
\* point have succeeded, or by the catch, and then no message is acked, the
\* error is logged and the poll is over without raising; messages leave the
\* clean topic by an ack only.
C21_AckAfterSuccess ==
  [][PollsEndRight /\ AckedByAnAck /\ AckIsLast]_vars

\* A poll failed after it had enqueued a sentiment-doc envelope: it logged the
\* error and its batch is still on the clean topic; another poll has acked.
C21_Witness ==
  /\ \E p \in AnalyzerPolls :
       /\ apoll[p].outcome = "logged"
       /\ inbox # <<>>
       /\ analysis # <<>>
  /\ \E p \in AnalyzerPolls : apoll[p].outcome = "acked"

----------------------------------------------------------------------------
(* C22: the Orchestrator acks after every message of the batch succeeded *)

BatchIds(pl) == {pl.batch[k].id : k \in 1..Len(pl.batch)}

ProcessedIds == {processed[n].id : n \in 1..Len(processed)}

\* The batch is in what dequeueBatch(50) returns on the directory d.
ReturnedAgain(batch, d) ==
  \A k \in 1..Len(batch) :
    \E n \in 1..Len(PollBatch(d)) : PollBatch(d)[n] = batch[k]

\* The step in which the pollOnce() of poller p ends.
OrchestratorPollEnds(p) == poll[p].pc # "idle" /\ poll'[p].pc = "idle"

EndsByAck(p) ==
  /\ poll[p].pc = "ack"
  /\ BatchIds(poll[p]) \subseteq ProcessedIds
  /\ acked' = acked \cup BatchIds(poll[p])

EndsByCatch(p) ==
  /\ poll[p].pc # "ack"
  /\ acked' = acked
  /\ ReturnedAgain(poll[p].batch, dir')

\* C22: a pollOnce() of the Orchestrator ends either by the ack of its batch,
\* after every message of the batch was processed and its rules evaluated, or
\* by the catch of a failed call, and then it acks no message and the whole
\* batch is what the next dequeueBatch returns again.
C22_AckAfterSuccess ==
  [][\A p \in Pollers : OrchestratorPollEnds(p) => (EndsByAck(p) \/ EndsByCatch(p))]_vars

----------------------------------------------------------------------------
(* C23: when a rule fires *)

FiringPcs == {"sendObservation", "requestAction", "publishTrigger"}

\* The step in which poller p runs evaluateRules() from rule k on: from the first
\* rule after a processed envelope, from the next rule after a firing.
EvaluatesFrom(p, k) ==
  \/ /\ poll[p].pc \in {"process", "publishTrend"}
     /\ poll'[p] # poll[p]
     /\ processed' # processed
     /\ k = 1
  \/ /\ poll[p].pc = "publishTrigger"
     /\ poll'[p].pc # "idle"
     /\ poll'[p] # poll[p]
     /\ k = poll[p].r + 1

\* The times of the firings of the rule id that the evaluation of poller p looks
\* back on: those with a TriggerRecord, and those another poll has under way.
FiringTimes(id, p) ==
  {triggers'[n].triggeredAt : n \in {m \in 1..Len(triggers') : triggers'[m].ruleId = id}}
    \cup {poll'[q].now : q \in {x \in Pollers \ {p} :
                                    /\ poll'[x].pc \in FiringPcs
                                    /\ rules[poll'[x].r].id = id}}

\* The rule i has to fire at the evaluation of this step.
HasToFire(i, p) ==
  /\ rules[i].type = "avgScoreThreshold"
  /\ RLess(state'.avgScore, rules[i].threshold)
  /\ state'.volume >= rules[i].minVolume
  /\ \A t \in FiringTimes(rules[i].id, p) : clock' - t >= CooldownMs

\* C23: at an evaluation, a rule fires if and only if avgScore < threshold and
\* volume >= minVolume in the state of the evaluation and the rule did not fire
\* in the 5 minutes before; the rules are evaluated in the order of the document,
\* up to the first that fires.
C23_FiresIff ==
  [][\A p \in Pollers : \A k \in 1..(Len(rules) + 1) :
       EvaluatesFrom(p, k) =>
         LET due == {i \in k..Len(rules) : HasToFire(i, p)}
         IN IF due = {}
              THEN poll'[p].pc \notin FiringPcs
              ELSE /\ poll'[p].pc = "sendObservation"
                   /\ \A i \in due : poll'[p].r <= i
                   /\ poll'[p].r \in due]_vars

----------------------------------------------------------------------------
(* C24: a rule that has never fired *)

\* Date.now() at the start of the Orchestrator: a clock that was never set
\* starts at the epoch; 4:30 and 5:00 minutes after it; and the usual start.
EpochClocks == {0, CooldownMs - 2 * PollIntervalMs, CooldownMs, ClockStart}

EpochInit ==
  /\ clock \in EpochClocks
  /\ dir = {}
  /\ enqSeq = <<>>
  /\ enq = [pc |-> "idle", id |-> BogusId]
  /\ dq = NoDequeue
  /\ ack = NoAck
  /\ acked = {}
  /\ ackRaised = FALSE
  /\ rules = RulesDoc
  /\ state = InitialState
  /\ triggers = <<>>
  /\ lastRuleTrigger = [id \in RuleIds |-> Absent]
  /\ lastNotified = [id \in RuleIds |-> Absent]
  /\ poll = [p \in Pollers |-> IdlePoll]
  /\ ticks = 0
  /\ processed = <<>>
  /\ fed = <<>>
  /\ NoCollector
  /\ NoAnalyzer

\* Trend points only.
EpochNext ==
  \/ \E env \in TrendEnvelopes, u \in Uuids : Produce(env, u)
  \/ TimerTick
  \/ \E p \in Pollers : PollStep(p)

SpecEpoch == EpochInit /\ [][EpochNext]_vars

\* C24: at an evaluation, a rule whose condition holds and that has no firing of
\* its own in the 5 minutes before (none at all, if it never fired) is not
\* skipped, whatever the clock reads and whenever the other rules fired: the
\* rules before it are evaluated, and the first of them to fire is at most it.
C24_NoCooldownUnlessFired ==
  [][\A p \in Pollers : \A k \in 1..(Len(rules) + 1) :
       EvaluatesFrom(p, k) =>
         \A i \in k..Len(rules) :
           HasToFire(i, p) => (poll'[p].pc = "sendObservation" /\ poll'[p].r <= i)]_vars

----------------------------------------------------------------------------
(* C25: processMessage() on trend points, one after the other *)

\* Trend points one behaviour processes: more than trendHistory keeps.
MaxTrendsFed == 103

\* The batches the trend points stand for: the first two vary, the later ones
\* are of one document and differ by their time.
TrendBatchesAt(n) ==
  IF n < 2 THEN {<<DocNeg>>, <<DocNeg, DocNeg1, DocPos>>} ELSE {<<DocPos>>}

TrendInit ==
  /\ clock = ClockStart
  /\ dir = {}
  /\ enqSeq = <<>>
  /\ enq = [pc |-> "idle", id |-> BogusId]
  /\ dq = NoDequeue
  /\ ack = NoAck
  /\ acked = {}
  /\ ackRaised = FALSE
  /\ rules = <<>>
  /\ state = InitialState
  /\ triggers = <<>>
  /\ lastRuleTrigger = [id \in RuleIds |-> Absent]
  /\ lastNotified = [id \in RuleIds |-> Absent]
  /\ poll = [p \in Pollers |-> IdlePoll]
  /\ ticks = 0
  /\ processed = <<>>
  /\ fed = <<>>
  /\ NoCollector
  /\ NoAnalyzer

\* pollOnce() dequeues one trend-point envelope and processMessage() runs up to
\* its await: updateStateFromTrend(), then the call of lava.publishTrend().  The
\* next envelope comes gap milliseconds later.
DeliverTrend(b, gap) ==
  LET trend == TrendPointFromDocs(b, clock)
      message == [id |-> <<clock, 1>>,
                  payload |-> [kind |-> "trend-point", data |-> trend]]
  IN /\ poll[1].pc = "idle"
     /\ Len(fed) < MaxTrendsFed
     /\ state' = UpdateStateFromTrend(state, trend)
     /\ fed' = Append(fed, trend)
     /\ poll' = [poll EXCEPT ![1] =
                   [IdlePoll EXCEPT !.pc = "publishTrend", !.batch = <<message>>, !.i = 1]]
     /\ clock' = clock + gap
     /\ UNCHANGED <<rules, triggers, lastRuleTrigger, lastNotified, ticks, processed, svars,
                    dir, enqSeq, enq, dq, ack, acked, ackRaised>>

TrendNext ==
  \/ \E b \in TrendBatchesAt(Len(fed)) : DeliverTrend(b, 1)
  \/ PublishTrendDone(1)
  \/ AckBatch(1)

SpecTrend == TrendInit /\ [][TrendNext]_vars

\* The update of the step replaces the five fields by those of the trend point,
\* appends the point and leaves it with publishTrend().
TrendReplaces ==
  fed' # fed =>
    LET trend == fed'[Len(fed')] IN
    /\ state'.volume = trend.volume
    /\ state'.avgScore = trend.avgScore
    /\ state'.posShare = trend.posShare
    /\ state'.negShare = trend.negShare
    /\ state'.topTopics = trend.topTopics
    /\ state'.trendHistory[Len(state'.trendHistory)] = trend
    /\ poll'[1].pc = "publishTrend"
    /\ poll'[1].batch[poll'[1].i].payload.data = trend

\* trendHistory is the last 100 of the trend points processed, in their order.
TrendHistoryIsRecent ==
  LET h == state.trendHistory IN
  /\ Len(h) = Min(Len(fed), TrendHistoryCap)
  /\ \A i \in 1..Len(h) : h[i] = fed[Len(fed) - Len(h) + i]

\* C25: processing a trend-point replaces volume, avgScore, posShare, negShare
\* and topTopics by the values of the point, appends the point to trendHistory
\* and passes it to publishTrend; trendHistory holds at most 100 points, the
\* most recently processed ones in processing order.
C25_TrendReplaces == [][TrendReplaces]_vars /\ []TrendHistoryIsRecent

\* More than 100 trend points were processed: the oldest are gone, and the
\* volume is that of the last point, not the sum.
C25_Witness ==
  /\ Len(fed) > TrendHistoryCap
  /\ Len(state.trendHistory) = TrendHistoryCap
  /\ state.trendHistory[1] # fed[1]
  /\ state.volume = fed[Len(fed)].volume
  /\ fed[1].volume = 3

----------------------------------------------------------------------------
(* C26: failures that are not retried *)

\* A status that is neither 429 nor 5xx, the absent status included.
Permanent(status) == status # 429 /\ status \notin 500..599

PermanentCalls ==
  {k \in 1..Calls : ~retry.outcomes[k].ok /\ Permanent(retry.outcomes[k].status)}

\* C26 (as claimed): a failure that is not retryable reaches the caller after
\* exactly one call of the service and with no delay.
C26_ExactlyOneAttempt ==
  PermanentCalls # {} =>
    /\ retry.pc = "thrown"
    /\ Calls = 1
    /\ retry.delays = <<>>

\* C26 (amended): a failure that is not retryable is thrown to the caller by
\* the catch that sees it: the call is not repeated, no delay follows it and no
\* further call is made; the calls before it failed with a retryable status and
\* were each followed by one delay, so a first failure that is not retryable
\* reaches the caller after exactly one call and no delay.
C26_NoRetryOfPermanent ==
  \A k \in PermanentCalls :
    /\ k = Calls
    /\ retry.pc = "thrown"
    /\ retry.error = CallError(retry.outcomes[k].status)
    /\ k \notin SleptCalls
    /\ Len(retry.delays) = k - 1
    /\ \A j \in 1..(k - 1) :
         ~retry.outcomes[j].ok /\ ~Permanent(retry.outcomes[j].status)

\* The response of the first call could not be parsed (an error with no
\* status): analyzeBatch() has thrown after one call and no delay.
C26_Witness ==
  /\ retry.outcomes = <<Failed(Absent)>>
  /\ retry.pc = "thrown"
  /\ retry.delays = <<>>
  /\ retry.options.maxRetries > 0

----------------------------------------------------------------------------
(* C27: candidates that fail validation *)

\* The candidate passes the validation of a SentimentDoc: an id, a label of the
\* three (its own or that of its sentiment object), a score in [-1, 1], at most
\* 5 non-empty topics and a summary.
ValidCandidate(raw) ==
  /\ ~raw.isNull
  /\ raw.id # ""
  /\ raw.sentiment.label \in {"neg", "neu", "pos"}
  /\ LET score == IF raw.sentiment.isObject /\ raw.sentiment.score.has
                    THEN raw.sentiment.score ELSE raw.score
     IN /\ score.has
        /\ ~RLess(score.value, RInt(-1))
        /\ ~RLess(RInt(1), score.value)
  /\ Len(raw.topics) <= 5
  /\ \A i \in 1..Len(raw.topics) : raw.topics[i] # ""
  /\ raw.summary # <<>>

ValidIndexes(parsed) == {i \in 1..Len(parsed) : ValidCandidate(parsed[i])}

\* The n-th valid candidate of the answer.
NthValid(parsed, n) ==
  CHOOSE i \in ValidIndexes(parsed) :
    Cardinality({j \in ValidIndexes(parsed) : j <= i}) = n

\* C27: whatever candidates the answer holds, analyzeBatch() returns, and its
\* documents are the candidates that pass the validation, each once, in the
\* order of the answer; a candidate that fails is left out and nothing is thrown.
C27_InvalidDropped ==
  retry.outcomes # <<>> =>
    /\ retry.pc = "returned"
    /\ retry.error = NoError
    /\ Len(retry.documents) = Cardinality(ValidIndexes(retry.parsed))
    /\ \A n \in 1..Len(retry.documents) :
         LET raw == retry.parsed[NthValid(retry.parsed, n)] IN
         /\ retry.documents[n].postId = raw.id
         /\ retry.documents[n].sentiment = raw.sentiment.label
         /\ retry.documents[n].summary = raw.summary
         /\ retry.documents[n].topics = raw.topics

\* An answer of a valid, an invalid and a valid candidate: two documents, in
\* the order of the answer.
C27_Witness ==
  /\ retry.pc = "returned"
  /\ retry.parsed = <<ItemNested, ItemNull, ItemOk>>
  /\ Len(retry.documents) = 2
  /\ retry.documents[1].postId = "p2"
  /\ retry.documents[2].postId = "p1"

----------------------------------------------------------------------------
(* C28: triggerRule(), one firing after the other *)

\* The first firings vary (an answer of the agent with or without an action, a
\* call that fails); the later ones succeed with an action.
VariedFirings == 2

FireInit ==
  /\ clock = ClockStart
  /\ dir = {}
  /\ enqSeq = <<>>
  /\ enq = [pc |-> "idle", id |-> BogusId]
  /\ dq = NoDequeue
  /\ ack = NoAck
  /\ acked = {}
  /\ ackRaised = FALSE
  /\ rules = <<Rule1>>
  /\ state = InitialState
  /\ triggers = <<>>
  /\ lastRuleTrigger = [id \in RuleIds |-> Absent]
  /\ lastNotified = [id \in RuleIds |-> Absent]
  /\ poll = [p \in Pollers |-> IdlePoll]
  /\ ticks = 0
  /\ processed = <<>>
  /\ fed = <<>>
  /\ NoCollector
  /\ NoAnalyzer

\* A qualifying trend point every 5 minutes, processed by one poll at a time.
FireNext ==
  \/ DeliverTrend(<<DocNeg>>, CooldownMs)
  \/ PublishTrendDone(1)
  \/ SendObservationDone(1)
  \/ \E a \in (IF Len(fed) <= VariedFirings THEN Actions ELSE {"noop"}) : RequestActionDone(1, a)
  \/ PublishTriggerDone(1)
  \/ (Len(fed) <= VariedFirings /\ CallFails(1))
  \/ AckBatch(1)

SpecFire == FireInit /\ [][FireNext]_vars

\* The calls of a firing follow each other: each begins in the step in which
\* the one before it resolved.
FiringInOrder ==
  \A p \in Pollers :
    /\ (poll'[p].pc = "requestAction" /\ poll[p].pc # "requestAction")
         => poll[p].pc = "sendObservation"
    /\ (poll'[p].pc = "publishTrigger" /\ poll[p].pc # "publishTrigger")
         => poll[p].pc = "requestAction"
    /\ (poll'[p].pc = "sendObservation" /\ poll[p].pc # "sendObservation")
         => poll[p].pc \in {"process", "publishTrend", "publishTrigger"}

\* The TriggerRecord that the firing of poller p appends.
IsRecordOf(record, p) ==
  /\ record.ruleId = rules[poll[p].r].id
  /\ record.agentName = rules[poll[p].r].agentName
  /\ record.message = rules[poll[p].r].message
  /\ record.action = poll[p].action

\* The history changes by the append of one record, by a poll whose
\* publishTrigger has resolved; beyond 50 records the oldest is dropped.
AppendsOneRecord ==
  triggers' # triggers =>
    /\ \E p \in Pollers :
         /\ poll[p].pc = "publishTrigger"
         /\ poll'[p].pc # "publishTrigger"
         /\ IsRecordOf(triggers'[Len(triggers')], p)
    /\ IF Len(triggers) < TriggerCap
         THEN /\ Len(triggers') = Len(triggers) + 1
              /\ \A n \in 1..Len(triggers) : triggers'[n] = triggers[n]
         ELSE /\ Len(triggers') = TriggerCap
              /\ \A n \in 1..(TriggerCap - 1) : triggers'[n] = triggers[n + 1]

\* A call of the firing that fails ends the poll and appends nothing.
FailedFiringAppendsNothing ==
  \A p \in Pollers :
    (poll[p].pc \in FiringPcs /\ poll'[p].pc = "idle") => triggers' = triggers

\* getState().triggers: the last 20 records of the history, in its order.
SnapshotIsLast20 ==
  LET shown == GetState.triggers IN
  /\ Len(shown) = Min(Len(triggers), 20)
  /\ \A n \in 1..Len(shown) : shown[n] = triggers[Len(triggers) - Len(shown) + n]

\* C28: a firing calls sendObservation, requestAction and publishTrigger in
\* this order and then appends one TriggerRecord, with the action of the answer
\* or null; a failed call appends nothing; the history holds at most 50
\* records, the most recent in the order of their firings, and a snapshot
\* shows the last 20 of them at most.
C28_FiringOrder ==
  /\ [][FiringInOrder /\ AppendsOneRecord /\ FailedFiringAppendsNothing]_vars
  /\ [](Len(triggers) <= 50 /\ SnapshotIsLast20)

\* 51 firings: the history is full, the record of the first firing is gone,
\* the oldest record left is one of an answer without an action, and the
\* snapshot shows 20 records.
C28_Witness ==
  /\ Len(triggers) = 50
  /\ Len(fed) > 50
  /\ triggers[1].triggeredAt > ClockStart + CooldownMs
  /\ triggers[1].action = "null"
  /\ Len(GetState.triggers) = 20
  /\ GetState.triggers[20] = triggers[50]

----------------------------------------------------------------------------
(* C29: a rule that does not fire *)

\* The rule i does not fire at the evaluation of this step: its condition is
\* not met, or the time of its last firing is less than 5 minutes back.
DoesNotFire(i) ==
  \/ ~RLess(state'.avgScore, rules[i].threshold)
  \/ state'.volume < rules[i].minVolume
  \/ /\ lastRuleTrigger'[rules[i].id] # Absent
     /\ clock' - lastRuleTrigger'[rules[i].id] < CooldownMs

\* What the step changes apart from the evaluation: the update of the envelope
\* and its time stamp, or the record and the time of the firing that returned.
OnlyTheEnvelope(p, k) ==
  /\ k = 1 =>
       /\ triggers' = triggers
       /\ lastRuleTrigger' = lastRuleTrigger
       /\ state' = [(IF poll[p].pc = "process"
                       THEN UpdateStateFromDoc(state, poll[p].batch[poll[p].i].payload.data)
                       ELSE state) EXCEPT !.lastUpdated = clock]
  /\ k > 1 =>
       /\ state' = state
       /\ Len(triggers') <= Len(triggers) + 1
       /\ triggers'[Len(triggers')].ruleId = rules[k - 1].id
       /\ \A id \in RuleIds \ {rules[k - 1].id} : lastRuleTrigger'[id] = lastRuleTrigger[id]

\* No call for a rule that does not fire: the poll goes on to a call only for
\* a rule that fires, and the rules before it are passed over.
NoCallUnlessFiring(p, k) ==
  /\ (\A i \in k..Len(rules) : DoesNotFire(i)) => poll'[p].pc \in {"process", "ack"}
  /\ poll'[p].pc \in FiringPcs =>
       /\ poll'[p].pc = "sendObservation"
       /\ poll'[p].r \in k..Len(rules)
       /\ ~DoesNotFire(poll'[p].r)

\* C29: the evaluation of a rule that does not fire (condition not met, or
\* within its cooldown) changes neither the state nor the trigger history nor
\* the last-firing time of any rule, and calls no external service: a step
\* that evaluates rules changes what the processed envelope, or the firing
\* that has returned, changes, and nothing else.
C29_NonFiringChangesNothing ==
  [][\A p \in Pollers : \A k \in 1..(Len(rules) + 1) :
       EvaluatesFrom(p, k) => (OnlyTheEnvelope(p, k) /\ NoCallUnlessFiring(p, k))]_vars

\* A batch was processed and acked, its rules were evaluated and none fired.
C29_Witness ==
  /\ processed # <<>>
  /\ acked # {}
  /\ AllIdle
  /\ triggers = <<>>
  /\ \A id \in RuleIds : lastRuleTrigger[id] = Absent
  /\ state.volume > 0

----------------------------------------------------------------------------
(* C30: the time stamp, then the rules *)

\* The evaluation that follows an envelope starts in the step that sets
\* lastUpdated, on the state with the update of the envelope.
StampThenRules ==
  \A p \in Pollers :
    EvaluatesFrom(p, 1) =>
      /\ state'.lastUpdated = clock'
      /\ poll[p].pc = "process" =>
           Aggregate(state') =
             Aggregate(UpdateStateFromDoc(state, poll[p].batch[poll[p].i].payload.data))
      /\ poll[p].pc = "publishTrend" => Aggregate(state') = Aggregate(state)

\* The rules are passed in the order of the document, each once: a pass goes
\* on behind the rule that fired, and the poll takes its next envelope, or
\* acks, only from a step that has evaluated the rules to the last.
RulesInOrder ==
  \A p \in Pollers :
    /\ \A k \in 1..(Len(rules) + 1) :
         (EvaluatesFrom(p, k) /\ poll'[p].pc \in FiringPcs) => poll'[p].r >= k
    /\ (poll'[p] # poll[p] /\ poll'[p].pc \in {"process", "ack"} /\ poll[p].pc # "idle")
         => /\ \E k \in 1..(Len(rules) + 1) : EvaluatesFrom(p, k)
            /\ poll'[p].pc = "process" => poll'[p].i = poll[p].i + 1

\* While the pass of a poll waits for a firing, the state it evaluates the
\* remaining rules against stays the state with the update of its envelope.
StateOfTheEnvelope ==
  \A p \in Pollers :
    poll[p].pc \in FiringPcs => Aggregate(state') = Aggregate(state)

\* C30: after each processed envelope lastUpdated is set and then every rule is
\* evaluated once, in the order of the rules document, before the poll takes
\* the next envelope of its batch; all of them are evaluated against the state
\* with the update of that envelope.
C30_StampThenEvaluate ==
  [][StampThenRules /\ RulesInOrder /\ StateOfTheEnvelope]_vars

----------------------------------------------------------------------------
(* The since timestamp of the Collector *)

\* The run r leaves runOnce() in this step.
RunEnds(r) == crun[r].pc # "idle" /\ crun'[r].pc = "idle"

\* The run r leaves runOnce() by the end of its loops: it is at its last item
\* and that item is skipped as seen, dropped by the language filter after its
\* append, or enqueued.
RunCompletes(r) ==
  LET raw == crun[r].items[crun[r].i] IN
  /\ RunEnds(r)
  /\ crun[r].i = Len(crun[r].items)
  /\ \/ crun[r].pc = "item" /\ DedupeKey(raw) \in seen
     \/ /\ crun[r].pc = "append"
        /\ archive' = Append(archive, raw)
        /\ ~PassesFilter(raw, config.allowAllLangs)
     \/ crun[r].pc = "enqueue" /\ cleanTopic' = Append(cleanTopic, CleanPost(raw))

SinceOnlyAtTheEnd ==
  lastRunISO' # lastRunISO => (lastRunISO' = clock /\ \E r \in Runners : RunCompletes(r))

FailureKeepsSince ==
  \A r \in Runners : (RunEnds(r) /\ ~RunCompletes(r)) => lastRunISO' = lastRunISO

NextPollReadsSince ==
  \A r \in Runners : (crun[r].pc = "idle" /\ crun'[r].pc # "idle") => crun'[r].since = lastRunISO

OneSincePerCycle ==
  \A r \in Runners : (crun[r].pc # "idle" /\ crun'[r].pc # "idle") => crun'[r].since = crun[r].since

----------------------------------------------------------------------------
(* The language filter of the Collector *)

\* The k-th item the loop looked at was new: no item looked at before it has
\* its dedupe key.
NewItem(k) == \A j \in 1..(k - 1) : DedupeKey(handled[j]) # DedupeKey(handled[k])

Enqueued(raw) == \E k \in 1..Len(cleanTopic) : cleanTopic[k] = CleanPost(raw)

Archived(raw) == \E k \in 1..Len(archive) : archive[k] = raw

\* What the clean topic holds was allowed by the filter.
OnlyAllowedEnqueued ==
  \A k \in 1..Len(cleanTopic) : config.allowAllLangs \/ cleanTopic[k].lang = "en"

\* C32 (as claimed): nothing is enqueued that the language filter does not
\* allow, and once the runs are over a new item is on the clean topic if and
\* only if the filter allows it, and a new item the filter drops is in the raw
\* archive and in the seen-set.
C32_LanguageFilter ==
  /\ OnlyAllowedEnqueued
  /\ NoRunInFlight =>
       \A k \in 1..Len(handled) :
         NewItem(k) =>
           /\ Enqueued(handled[k]) <=> PassesFilter(handled[k], config.allowAllLangs)
           /\ ~PassesFilter(handled[k], config.allowAllLangs) =>
                (Archived(handled[k]) /\ DedupeKey(handled[k]) \in seen)

----------------------------------------------------------------------------
(* The postId of a SentimentDoc *)

\* An item of an answer of the service about the post.
AnswerFor(post) ==
  RawItem(MockDoc(post).postId, Label(MockDoc(post).sentiment), Number(MockDoc(post).score),
          MockDoc(post).topics, MockDoc(post).summary)

\* An item that names a post the batch does not hold.
ItemForeign == [AnswerFor(PostLove) EXCEPT !.id = "p9"]

AnswerItems == {AnswerFor(post) : post \in AnalyzerPosts} \cup {ItemForeign}

\* The JSON arrays the service answers a batch with: the service is not bound to
\* the ids of the prompt, nor to one item per post.
Answers == SeqsUpTo(AnswerItems, BatchSize)

\* An Analyzer with an API key.
AnswerInit ==
  /\ QInit
  /\ NoOrchestrator
  /\ NoCollector
  /\ anthropic = TRUE
  /\ inbox = <<>>
  /\ analysis = <<>>
  /\ counted = <<>>
  /\ apoll = [p \in AnalyzerPolls |-> IdleAnalyzerPoll]
  /\ NoAdapterCall
  /\ NoMockCall

\* claude.analyzeBatch() resolves with the documents of the answer parsed.
AnswerDone(p, parsed) ==
  /\ apoll[p].pc = "analyze"
  /\ Analyzed(p, DocumentsOf(parsed))

\* One poll at a time, and any answer of the service.
AnswerNext ==
  \/ \E post \in AnalyzerPosts : ProduceClean(post)
  \/ AnalyzerTick /\ \A p \in AnalyzerPolls : apoll[p].pc = "idle"
  \/ \E p \in AnalyzerPolls :
       \/ \E parsed \in Answers : AnswerDone(p, parsed)
       \/ EnqueueDocDone(p)
       \/ EnqueueTrendDone(p)
       \/ AnalyzerAckDone(p)
       \/ AnalyzerCallFails(p)

SpecAnswer == AnswerInit /\ [][AnswerNext]_vars

\* The postIds of the sentiment-doc envelopes the poll has enqueued.
PostIdsSent(p) ==
  SelectSeq([k \in 1..Len(apoll[p].sent) |->
               IF apoll[p].sent[k].kind = "sentiment-doc" THEN apoll[p].sent[k].data.postId
               ELSE ""],
            LAMBDA id : id # "")

\* C33 (as claimed): the sentiment-docs a poll has enqueued carry the ids of
\* CleanPosts of its batch, and no two of them carry the same id.
C33_PostIdForeignKey ==
  \A p \in AnalyzerPolls :
    /\ \A k \in 1..Len(PostIdsSent(p)) :
         \E j \in 1..Len(apoll[p].batch) : apoll[p].batch[j].id = PostIdsSent(p)[k]
    /\ \A k, j \in 1..Len(PostIdsSent(p)) : PostIdsSent(p)[k] = PostIdsSent(p)[j] => k = j

----------------------------------------------------------------------------
(* topTopics and topicCounts *)

\* The batches of the trend points of the topics model.
TopicBatches == {<<DocNeg>>, <<DocNeg, DocNeu>>, <<DocNeg, DocNeg1, DocPos>>}

\* Sentiment-docs and trend-points processed one after the other by an
\* Orchestrator without rules.
TopicsNext ==
  \/ \E doc \in FoldDocs : poll[1].pc = "idle" /\ FeedDoc(doc)
  \/ \E b \in TopicBatches : Len(fed) < MaxFed /\ DeliverTrend(b, 1)
  \/ PublishTrendDone(1)
  \/ AckBatch(1)

SpecTopics == TrendInit /\ [][TopicsNext]_vars

IsDoc(x) == "postId" \in DOMAIN x

\* The counts a trend point leaves: trend.volume - index for its topTopics.
CountsOfTrend(trend) ==
  [i \in 1..Len(trend.topTopics) |-> [topic |-> trend.topTopics[i], count |-> trend.volume - (i - 1)]]

\* The topic counts after the envelopes, with the topics in the order in which
\* they were inserted.
RECURSIVE InsertionCounts(_, _)
InsertionCounts(counter, envelopes) ==
  IF envelopes = <<>> THEN counter
  ELSE InsertionCounts(IF IsDoc(Head(envelopes))
                         THEN MapIncrements(counter, Head(envelopes).topics)
                         ELSE CountsOfTrend(Head(envelopes)),
                       Tail(envelopes))

\* C34 (as claimed): topTopics has at most 5 entries and lists the keys of
\* topicCounts by count descending, equal counts in insertion order; topicCounts
\* holds the increments of the sentiment-docs since the last trend-point over
\* the counts trend.volume - index that trend-point left.
C34_TopTopicsConsistent ==
  /\ Len(state.topTopics) <= TopTopicsCap
  /\ Range(state.topicCounts) = Range(InsertionCounts(<<>>, fed))
  /\ state.topTopics = RankTopics(InsertionCounts(<<>>, fed))

----------------------------------------------------------------------------
(* Progress of a topic *)

\* The CleanPosts of the progress model, all of neutral text; the mock document
\* of PostEmptyTopic never passes SentimentDocSchema.
PostPlain2 == [PostPlain EXCEPT !.id = "p8"]

PostPlain3 == [PostPlain EXCEPT !.id = "p9"]

ProgressPosts == {PostEmptyTopic, PostPlain, PostPlain2, PostPlain3}

\* An Analyzer without an API key: the mock adapter answers.
ProgressInit ==
  /\ QInit
  /\ NoOrchestrator
  /\ NoCollector
  /\ anthropic = FALSE
  /\ inbox = <<>>
  /\ analysis = <<>>
  /\ counted = <<>>
  /\ apoll = [p \in AnalyzerPolls |-> IdleAnalyzerPoll]
  /\ NoAdapterCall
  /\ NoMockCall

\* A setInterval callback while no poll is in flight: pollOnce() dequeues the
\* oldest batchSize messages; an empty batch ends the poll.
AnalyzerPollBegins(p) ==
  /\ \A p2 \in AnalyzerPolls : apoll[p2].pc = "idle"
  /\ inbox # <<>>
  /\ apoll' = [apoll EXCEPT ![p] = [IdleAnalyzerPoll EXCEPT
                  !.pc = "analyze", !.batch = Slice(inbox, BatchSize)]]
  /\ UNCHANGED <<cvars, retry, mock, anthropic, inbox, analysis, counted, fed, qvars, ovars>>

\* The polls of the Analyzer, one at a time; every external call and every file
\* operation succeeds.
ProgressPolls ==
  \/ AnalyzerPollBegins(1)
  \/ \E docs \in {MockDocuments(apoll[1].batch)} : AnalyzeDone(1, docs)
  \/ EnqueueDocDone(1)
  \/ EnqueueTrendDone(1)
  \/ AnalyzerAckDone(1)

ProgressNext ==
  \/ \E post \in ProgressPosts : ProduceClean(post)
  \/ ProgressPolls

\* The timer keeps polling.
SpecProgress == ProgressInit /\ [][ProgressNext]_vars /\ WF_vars(ProgressPolls)

OnCleanTopic(post) == \E k \in 1..Len(inbox) : inbox[k] = post

\* C35 (as claimed): every message whose own document passes the schema is
\* eventually acked, whatever was enqueued before it.
C35_QueueProgress ==
  \A post \in ProgressPosts \ {PostEmptyTopic} :
    OnCleanTopic(post) ~> ~OnCleanTopic(post)

----------------------------------------------------------------------------
(* Items of a poll cycle that failed *)

\* C36 (as claimed): while the timer runs and no cycle is in flight, a new item
\* whose key is in the seen-set has been archived, and enqueued if the language
\* filter and the CleanPost schema accept it: a later cycle, which skips what is
\* in the seen-set, has nothing left to do for it.
C36_NoItemLost ==
  (cstage = "timer" /\ NoRunInFlight) =>
    \A k \in 1..Len(handled) :
      (NewItem(k) /\ DedupeKey(handled[k]) \in seen) =>
        /\ Archived(handled[k])
        /\ PassingRawPost(handled[k]) => Enqueued(handled[k])

----------------------------------------------------------------------------
(* The since window of the RSS source *)

\* Items the feed publishes in one behaviour.
MaxPublished == 2

SinceRawPosts == {RawA1, RawF}

\* if (sinceDate && pubDate) { if (itemDate < sinceDate) continue; }
InWindow(entry, since) == since = Absent \/ ~(entry.createdAt < since)

\* The feed publishes an item: its pubDate is the time of publication.
Publish(raw) ==
  /\ Len(feed) < MaxPublished
  /\ \A k \in 1..Len(feed) : feed[k].raw # raw
  /\ feed' = Append(feed, [raw |-> raw, createdAt |-> clock, returned |-> FALSE])
  /\ clock' = clock + 1
  /\ UNCHANGED <<config, seen, lastRunISO, crun, cleanTopic, handled, archive, cstage, fed,
                 avars, ovars, dir, enqSeq, enq, dq, ack, acked, ackRaised>>

\* RssSourceAdapter.fetch(event, { sinceISO: since }) resolves with the items
\* of the feed whose pubDate is not before since; runOnce() goes through them,
\* and with no item it stores lastRunISO at once.
FetchSince(r) ==
  LET window == SelectSeq(feed, LAMBDA e : InWindow(e, crun[r].since))
      items == [k \in 1..Len(window) |-> window[k].raw]
  IN /\ crun[r].pc = "fetch"
     /\ feed' = [k \in 1..Len(feed) |->
                   IF InWindow(feed[k], crun[r].since)
                     THEN [feed[k] EXCEPT !.returned = TRUE] ELSE feed[k]]
     /\ IF items = <<>>
          THEN /\ crun' = [crun EXCEPT ![r] = IdleRun]
               /\ lastRunISO' = clock
               /\ cstage' = StageResolved(TRUE)
          ELSE /\ crun' = [crun EXCEPT ![r] = [crun[r] EXCEPT !.pc = "item", !.items = items, !.i = 1]]
               /\ UNCHANGED <<lastRunISO, cstage>>
     /\ UNCHANGED <<config, seen, cleanTopic, handled, archive, fed, avars, qvars, ovars>>

\* The Collector on a feed that publishes while it runs; no call fails.
SinceNext ==
  \/ \E raw \in SinceRawPosts : Publish(raw)
  \/ CollectorStart
  \/ CollectorTick
  \/ \E r \in Runners :
       \/ FetchSince(r)
       \/ HandleItem(r)
       \/ AppendDone(r)
       \/ EnqueueCleanDone(r)

SpecSince == CollectInit /\ [][SinceNext]_vars

\* C37 (as claimed): an item no fetch has returned yet is still inside the
\* window of a fetch to come: it is not older than the stored since, or a cycle
\* in flight is about to fetch with a since that is not after it.  (The stored
\* since never decreases, so an item outside of it is returned by no later cycle.)
C37_NoItemSkipped ==
  \A k \in 1..Len(feed) :
    ~feed[k].returned =>
      \/ InWindow(feed[k], lastRunISO)
      \/ \E r \in Runners : crun[r].pc = "fetch" /\ InWindow(feed[k], crun[r].since)

----------------------------------------------------------------------------
(* The trend point of a batch on the analysis topic *)

\* The batches of documents the Analyzer publishes in the delivery model.
DeliveredBatches == {<<DocNeg>>, <<DocPos>>}

\* What processBatch() enqueues for a batch, in the order of its enqueues.
BatchEnvelopes(docs) ==
  [k \in 1..Len(docs) |-> [kind |-> "sentiment-doc", data |-> docs[k]]]
  \o <<[kind |-> "trend-point", data |-> TrendPointFromDocs(docs, ClockStart)]>>

\* The envelopes enqueued so far are the first ones of the batch.
EnqueuedOf(docs) ==
  \A k \in 1..Len(enqSeq) :
    \/ enqSeq[k] \in acked
    \/ \E f \in dir : f.id = enqSeq[k] /\ f.payload = BatchEnvelopes(docs)[k]

\* The Analyzer enqueues one batch, envelope by envelope, and the Orchestrator
\* polls the topic, one poll at a time; no call fails and no rule is loaded.
DeliverNext ==
  \/ \E docs \in DeliveredBatches, u \in Uuids :
       /\ Len(enqSeq) < Len(BatchEnvelopes(docs))
       /\ EnqueuedOf(docs)
       /\ Produce(BatchEnvelopes(docs)[Len(enqSeq) + 1], u)
  \/ TimerTick /\ AllIdle
  \/ \E p \in Pollers :
       \/ StartMessage(p)
       \/ PublishTrendDone(p)
       \/ AckBatch(p)

SpecDeliver == OrchInit(<<>>) /\ [][DeliverNext]_vars

\* The kinds of the envelopes processed, in the order they were processed.
KindsProcessed == [k \in 1..Len(processed) |-> processed[k].kind]

\* C38 (as claimed): the Orchestrator processes no sentiment-doc of the batch
\* after the trend-point of the batch, and when the trend-point is the last
\* envelope processed, the volume, average and shares of the state are those
\* of the trend-point.
C38_TrendAfterDocs ==
  /\ \A i, j \in 1..Len(processed) :
       (KindsProcessed[i] = "trend-point" /\ KindsProcessed[j] = "sentiment-doc") => j < i
  /\ (processed # <<>> /\ KindsProcessed[Len(processed)] = "trend-point") =>
       LET trend == state.trendHistory[Len(state.trendHistory)]
       IN /\ state.volume = trend.volume
          /\ state.avgScore = trend.avgScore
          /\ state.posShare = trend.posShare
          /\ state.negShare = trend.negShare

----------------------------------------------------------------------------
(* The calls of a firing and the cooldown *)

\* One rule, trend points only, one poll at a time; any awaited call may reject.
RedeliverNext ==
  \/ \E env \in TrendEnvelopes, u \in Uuids : Produce(env, u)
  \/ \E k \in QuietGaps : QuietTicks(k)
  \/ TimerTick /\ AllIdle
  \/ \E p \in Pollers :
       \/ StartMessage(p)
       \/ PublishTrendDone(p)
       \/ SendObservationDone(p)
       \/ \E a \in Actions : RequestActionDone(p, a)
       \/ PublishTriggerDone(p)
       \/ CallFails(p)
       \/ AckBatch(p)

SpecRedeliver == OrchInit(<<Rule1>>) /\ [][RedeliverNext]_vars

\* The notification of a firing is sent: sendObservation resolves.
Notifies(p) == poll[p].pc = "sendObservation" /\ poll'[p].pc = "requestAction"

\* A firing whose notification was sent comes to its end, by the return of
\* triggerRule() or by an exception.
NotifiedFiringEnds(p) ==
  /\ poll[p].pc \in {"requestAction", "publishTrigger"}
  /\ poll'[p].pc \notin {"requestAction", "publishTrigger"}

NotificationGated ==
  \A p \in Pollers :
    Notifies(p) =>
      \/ lastNotified[rules[poll[p].r].id] = Absent
      \/ poll[p].now - lastNotified[rules[poll[p].r].id] >= CooldownMs

NotifiedFiringRecorded ==
  \A p \in Pollers :
    NotifiedFiringEnds(p) => lastRuleTrigger'[rules[poll[p].r].id] = poll[p].now

\* C39 (as claimed): a notification of a rule is sent only if none was sent for
\* that rule in the 5 minutes before, and every firing whose notification was
\* sent leaves its time as the last-firing time of the rule, however it ends.
C39_SideEffectsGated ==
  [][NotificationGated /\ NotifiedFiringRecorded]_vars

----------------------------------------------------------------------------
(* dequeueBatch against a concurrent ack *)

\* C40 (as claimed): a dequeueBatch whose listed file was unlinked by an ack
\* before it was read does not raise, and what a dequeueBatch returns are
\* messages whose files were completely present.
C40_DequeueSafeUnderAck ==
  /\ dq.err # "ENOENT"
  /\ dq.pc = "done" => \A i \in 1..Len(dq.items) : dq.items[i].complete

====
